---------------------------- MODULE Spec2Model ----------------------------
(***************************************************************************)
(* Model of company-intelligence-py/smart_scraper.py: SmartWebsiteScraper. *)
(* One scrape_website call is a state machine whose steps are the          *)
(* suspension points (awaits) of the coroutine: every HTTP request made by *)
(* the tenacity-wrapped _scrape_with_aiohttp, and every browser operation  *)
(* of _scrape_with_playwright.  The code between two awaits runs           *)
(* atomically and is part of the action that ends at the next await.       *)
(*                                                                         *)
(* Strings are sequences of one-character strings, so that startswith,     *)
(* rstrip, replace and urlparse are computed as the code computes them.    *)
(***************************************************************************)
EXTENDS Integers, Sequences, FiniteSets, TLC

(***************************************************************************)
(* Python str helpers.                                                      *)
(***************************************************************************)
StartsWith(s, p) ==
    /\ Len(p) <= Len(s)
    /\ SubSeq(s, 1, Len(p)) = p

\* str.find(sub): 1-based index of the first occurrence, 0 when absent.
Find(s, sub) ==
    LET hits == {i \in 1..(Len(s) - Len(sub) + 1) : SubSeq(s, i, i + Len(sub) - 1) = sub}
    IN  IF hits = {} THEN 0 ELSE CHOOSE i \in hits : \A j \in hits : i <= j

\* str.replace(old, new, 1): only the first occurrence is replaced.
Replace1(s, old, new) ==
    LET i == Find(s, old)
    IN  IF i = 0 THEN s
        ELSE SubSeq(s, 1, i - 1) \o new \o SubSeq(s, i + Len(old), Len(s))

\* mutant: only one trailing slash is removed
RStripSlash_One(s) ==
    IF Len(s) > 0 /\ s[Len(s)] = "/" THEN SubSeq(s, 1, Len(s) - 1) ELSE s

\* str.rstrip('/'): every trailing slash is removed.
RECURSIVE RStripSlash(_)
RStripSlash(s) ==
    IF Len(s) > 0 /\ s[Len(s)] = "/" THEN RStripSlash(SubSeq(s, 1, Len(s) - 1)) ELSE s

LowerChar(c) ==
    CASE c = "A" -> "a" [] c = "B" -> "b" [] c = "C" -> "c" [] c = "D" -> "d"
      [] c = "E" -> "e" [] c = "F" -> "f" [] c = "G" -> "g" [] c = "H" -> "h"
      [] c = "I" -> "i" [] c = "J" -> "j" [] c = "K" -> "k" [] c = "L" -> "l"
      [] c = "M" -> "m" [] c = "N" -> "n" [] c = "O" -> "o" [] c = "P" -> "p"
      [] c = "Q" -> "q" [] c = "R" -> "r" [] c = "S" -> "s" [] c = "T" -> "t"
      [] c = "U" -> "u" [] c = "V" -> "v" [] c = "W" -> "w" [] c = "X" -> "x"
      [] c = "Y" -> "y" [] c = "Z" -> "z"
      [] OTHER -> c

\* str.lower()
Lower(s) == [i \in 1..Len(s) |-> LowerChar(s[i])]

Str_http  == <<"h", "t", "t", "p", ":", "/", "/">>
Str_https == <<"h", "t", "t", "p", "s", ":", "/", "/">>
Str_www   == <<"w", "w", "w", ".">>
Str_sep   == <<":", "/", "/">>
Str_wwwsep == <<":", "/", "/", "w", "w", "w", ".">>

(***************************************************************************)
(* _normalize_url (smart_scraper.py 252-256)                                *)
(***************************************************************************)
NormalizeUrl(url) ==
    RStripSlash(IF StartsWith(url, Str_http) \/ StartsWith(url, Str_https)
                THEN url ELSE Str_https \o url)

(***************************************************************************)
(* urllib.parse.urlparse, restricted to what _generate_url_variations      *)
(* reads: .scheme and .hostname.  The alphabet of the model has no '@',    *)
(* '[', '?', '#' or '%', so the netloc ends at the first '/' and the host  *)
(* is the netloc up to its first ':'.                                       *)
(***************************************************************************)
SchemeChars == {"a", "c", "h", "o", "p", "s", "t", "w", "A", "H", "W", "."}
AlphaChars  == {"a", "c", "h", "o", "p", "s", "t", "w", "A", "H", "W"}

\* index of the ':' that ends the scheme, 0 when the url has no scheme
SchemeEnd(url) ==
    LET i == Find(url, <<":">>)
    IN  IF i > 1 /\ url[1] \in AlphaChars /\ \A k \in 1..(i - 1) : url[k] \in SchemeChars
        THEN i ELSE 0

UrlScheme(url) ==
    IF SchemeEnd(url) = 0 THEN <<>> ELSE Lower(SubSeq(url, 1, SchemeEnd(url) - 1))

UrlNetloc(url) ==
    LET rest == SubSeq(url, SchemeEnd(url) + 1, Len(url))
        tail == SubSeq(rest, 3, Len(rest))
        j    == Find(tail, <<"/">>)
    IN  IF StartsWith(rest, <<"/", "/">>)
        THEN (IF j = 0 THEN tail ELSE SubSeq(tail, 1, j - 1))
        ELSE <<>>

\* parsed.hostname; <<>> stands for None (an empty host is reported as None)
UrlHostname(url) ==
    LET n == UrlNetloc(url)
        c == Find(n, <<":">>)
    IN  Lower(IF c = 0 THEN n ELSE SubSeq(n, 1, c - 1))

(***************************************************************************)
(* _generate_url_variations (smart_scraper.py 258-281)                      *)
(* parsed.hostname.startswith raises AttributeError when hostname is None. *)
(***************************************************************************)
VariationsRaises(url) == UrlHostname(url) = <<>>

WwwVariation(url) ==
    IF StartsWith(UrlHostname(url), Str_www)
    THEN Replace1(url, Str_www, <<>>)
    ELSE Replace1(url, Str_sep, Str_wwwsep)

SchemeVariation(url) ==
    IF UrlScheme(url) = <<"h", "t", "t", "p", "s">>
    THEN Replace1(url, Str_https, Str_http)
    ELSE Replace1(url, Str_http, Str_https)

GenerateUrlVariations(url) == <<WwwVariation(url), SchemeVariation(url)>>


(***************************************************************************)
(* Bounds of the model and constants of the program.                       *)
(***************************************************************************)
\* Response bodies have 0..MaxBodyLen characters (0 is the empty string).
MaxBodyLen == 1

\* tenacity decorator of _scrape_with_aiohttp (smart_scraper.py 161-165)
StopAfterAttempt == 3
WaitMultiplier == 1
WaitMin == 2
WaitMax == 10

\* the strings scrape_website is called with
Str_aco == <<"a", ".", "c", "o">>
InputUrls ==
    { Str_aco,                                   \* "a.co"
      Str_www \o Str_aco \o <<"/">>,             \* "www.a.co/"
      Str_http \o Str_aco,                       \* "http://a.co"
      <<"W", "W", "W", ".">> \o Str_aco,         \* "WWW.a.co"
      <<>> }                                     \* ""

(***************************************************************************)
(* Values.                                                                  *)
(***************************************************************************)
None == [kind |-> "none"]

\* markup returned by a fetch: its length, the strategy and the url fetched
Html(n, strategy, u) == [kind |-> "html", len |-> n, strategy |-> strategy, url |-> u]

\* Python truthiness of html_content: None and '' are both false
Truthy(html) == html.kind = "html" /\ html.len > 0

Err(prefix, msg) == [prefix |-> prefix, msg |-> msg]

\* a float field of the metadata: 0.0, or a duration measured with time.time()
ZeroSeconds == [kind |-> "zero"]
Elapsed(what) == [kind |-> "elapsed", of |-> what]

\* ScrapingMetadata(...) of lines 74-79 (models.py 197-223)
InitialMetadata ==
    [scraping_method |-> "unknown", scraping_success |-> FALSE,
     content_length |-> 0, scraping_duration_seconds |-> ZeroSeconds,
     ai_model_used |-> "None", analysis_duration_seconds |-> ZeroSeconds,
     total_processing_time |-> ZeroSeconds, errors_encountered |-> <<>>]

\* mutant: the failure document carries None where the code returns ''
EmptyDocument_NoneText(u) ==
    [url |-> u, html_text |-> None, meta_data |-> <<>>, structured_data |-> <<>>,
     content_sections |-> <<>>, technology_stack |-> <<>>, contact_info |-> <<>>,
     navigation_structure |-> <<>>]

\* the dictionary returned by the except branch (lines 150-159)
EmptyDocument(u) ==
    [url |-> u, html_text |-> <<>>, meta_data |-> <<>>, structured_data |-> <<>>,
     content_sections |-> <<>>, technology_stack |-> <<>>, contact_info |-> <<>>,
     navigation_structure |-> <<>>]

\* _extract_structured_data (lines 283-307): every field but url is a function
\* of the markup alone; the orchestrator treats the extractor as opaque.
ExtractStructuredData(html, u) ==
    [url |-> u,
     html_text |-> <<"clean_text", html>>,
     meta_data |-> <<"meta_tags", html>>,
     structured_data |-> <<"json_ld", html>>,
     content_sections |-> <<"content_sections", html>>,
     technology_stack |-> <<"technologies", html>>,
     contact_info |-> <<"contact_information", html>>,
     navigation_structure |-> <<"navigation_structure", html>>]

(***************************************************************************)
(* tenacity: retry=retry_if_exception_type((ClientError, TimeoutError)),   *)
(* stop=stop_after_attempt(3), wait=wait_exponential(1, min=2, max=10).    *)
(***************************************************************************)
\* outcomes of one execution of the body of _scrape_with_aiohttp (166-197):
\* a response with a status and a body, or an exception raised by aiohttp
HttpOutcomes ==
    [kind : {"response"}, status : {200}, len : 0..MaxBodyLen]
      \cup [kind : {"response"}, status : {404}, len : {0}]
      \cup [kind : {"exception"}, exc : {"TimeoutError", "OtherError"}]

\* mutant: every status from 200 to 299 is accepted
AttemptResult_Any2xx(o) ==
    IF o.kind = "response"
    THEN IF o.status \notin 200..299 THEN "ClientError" ELSE "ok"
    ELSE o.exc

\* lines 182-197: what one execution of the body returns or raises
AttemptResult(o) ==
    IF o.kind = "response"
    THEN IF o.status # 200 THEN "ClientError" ELSE "ok"
    ELSE o.exc

RetryableExceptions == {"ClientError", "TimeoutError"}

\* exp_base ** n with exp_base = 2
RECURSIVE Pow2(_)
Pow2(n) == IF n <= 0 THEN 1 ELSE 2 * Pow2(n - 1)

Max2(a, b) == IF a >= b THEN a ELSE b
Min2(a, b) == IF a <= b THEN a ELSE b

\* mutant: the exponent is the attempt number itself
WaitExponential_ExponentAttempt(attempt) ==
    Max2(Max2(0, WaitMin), Min2(WaitMultiplier * Pow2(attempt), WaitMax))

\* wait_exponential.__call__ for the attempt that has just failed
WaitExponential(attempt) ==
    Max2(Max2(0, WaitMin), Min2(WaitMultiplier * Pow2(attempt - 1), WaitMax))

\* mutant: stop_after_attempt(4)
RetryDecision_FourAttempts(r, n) ==
    IF r = "ok" THEN "return"
    ELSE IF r \in RetryableExceptions
         THEN (IF n >= StopAfterAttempt + 1 THEN "RetryError" ELSE "retry")
         ELSE "raise"

\* mutant: retry_if_exception_type(Exception), every exception is retried
RetryDecision_RetryAny(r, n) ==
    IF r = "ok" THEN "return"
    ELSE IF n >= StopAfterAttempt THEN "RetryError" ELSE "retry"

\* what the retry wrapper does after attempt number n ended with result r
RetryDecision(r, n) ==
    IF r = "ok" THEN "return"
    ELSE IF r \in RetryableExceptions
         THEN (IF n >= StopAfterAttempt THEN "RetryError" ELSE "retry")
         ELSE "raise"


(***************************************************************************)
(* State of one scrape_website call.                                       *)
(***************************************************************************)
VARIABLES
    pc,              \* where the coroutine is suspended
    url,             \* the argument of scrape_website
    normalized_url,  \* local normalized_url (reassigned on a variation's return)
    html_content,    \* local html_content
    scraping_method, \* local scraping_method
    metadata,        \* the ScrapingMetadata object of the call
    variations,      \* the list the for loop of line 110 iterates over
    target,          \* index of the loop in variations, 0 before the loop
    attempt_number,  \* tenacity's retry_state.attempt_number
    attempts,        \* results and waits of the finished attempts of this invocation
    browser,         \* "none", "live" or "closed"
    pw_exc,          \* exception in flight inside the try of lines 219-250
    pw_html,         \* local html of _scrape_with_playwright
    launches,        \* number of chromium.launch calls made so far
    result,          \* what the call returned or raised
    trace,           \* history: one event per strategy invocation and extractor run
    nav_timeouts,    \* history: the timeout argument of every page.goto call, in ms
    config,          \* the attributes __init__ reads from the configuration
    other            \* the frame of a second call suspended on the same scraper

vars == <<pc, url, normalized_url, html_content, scraping_method, metadata,
          variations, target, attempt_number, attempts, browser, pw_exc,
          pw_html, launches, result, trace, nav_timeouts, config, other>>

\* __init__, lines 38-43: config.get with the defaults 30, 3 and 2; the
\* first record is get_default_config() (config.py 18-22), the second a
\* configuration that sets all three options
Configs ==
    { [timeout |-> 30, max_retries |-> 3, retry_delay |-> 2],
      [timeout |-> 10, max_retries |-> 5, retry_delay |-> 3] }

\* no second call
NoCall == [pc |-> "absent"]

Event(ev, u) == [ev |-> ev, url |-> u, n |-> 0, outcome |-> "pending", html |-> None]

\* the last event of the history, completed
Close(tr, n, outcome, html) ==
    [tr EXCEPT ![Len(tr)] = [@ EXCEPT !.n = n, !.outcome = outcome, !.html = html]]

Init ==
    /\ pc = "start"
    /\ url \in InputUrls
    /\ normalized_url = <<>>
    /\ html_content = None
    /\ scraping_method = "None"
    /\ metadata = InitialMetadata
    /\ variations = <<>>
    /\ target = 0
    /\ attempt_number = 0
    /\ attempts = <<>>
    /\ browser = "none"
    /\ pw_exc = "none"
    /\ pw_html = None
    /\ launches = 0
    /\ result = [kind |-> "none"]
    /\ trace = <<>>
    /\ nav_timeouts = <<>>
    /\ config \in Configs
    /\ other = NoCall

(***************************************************************************)
(* scrape_website, lines 61-91: normalize, create the metadata, call the   *)
(* lightweight fetch on the normalized url.                                *)
(***************************************************************************)
Begin ==
    /\ pc = "start"
    /\ normalized_url' = NormalizeUrl(url)
    /\ metadata' = InitialMetadata
    /\ html_content' = None
    /\ scraping_method' = "None"
    /\ attempt_number' = 1
    /\ attempts' = <<>>
    /\ trace' = <<Event("aiohttp", normalized_url')>>
    /\ pc' = "aiohttp"
    /\ UNCHANGED <<config, other, nav_timeouts, url, variations, target, browser, pw_exc, pw_html, launches, result>>

\* mutant: the outer except branch re-raises instead of returning
Fail_Reraises(msg) ==
    /\ metadata' = [metadata EXCEPT !.scraping_success = FALSE,
                                    !.scraping_duration_seconds = Elapsed("scrape"),
                                    !.total_processing_time = Elapsed("scrape"),
                                    !.errors_encountered = Append(@, Err("final_error", msg))]
    /\ result' = [kind |-> "raised", exc |-> msg]
    /\ pc' = "done"

\* mutant: the except branch also stores the local scraping_method
Fail_RecordsMethod(msg) ==
    /\ metadata' = [metadata EXCEPT !.scraping_method = scraping_method,
                                    !.scraping_success = FALSE,
                                    !.scraping_duration_seconds = Elapsed("scrape"),
                                    !.total_processing_time = Elapsed("scrape"),
                                    !.errors_encountered = Append(@, Err("final_error", msg))]
    /\ result' = [kind |-> "returned", doc |-> EmptyDocument(normalized_url), meta |-> metadata']
    /\ pc' = "done"

\* lines 140-159: the outer except branch
Fail(msg) ==
    /\ metadata' = [metadata EXCEPT !.scraping_success = FALSE,
                                    !.scraping_duration_seconds = Elapsed("scrape"),
                                    !.total_processing_time = Elapsed("scrape"),
                                    !.errors_encountered = Append(@, Err("final_error", msg))]
    /\ result' = [kind |-> "returned", doc |-> EmptyDocument(normalized_url), meta |-> metadata']
    /\ pc' = "done"

\* lines 97 and 108 after the lightweight fetch of the primary url returned
AfterPrimaryReturn(html) == IF ~Truthy(html) THEN "pw_launch" ELSE "finish"

\* lines 92-97 after the lightweight fetch of the primary url raised
AfterPrimaryRaise == IF ~Truthy(html_content) THEN "pw_launch" ELSE "finish"

\* line 108 after the browser fetch returned
AfterPlaywrightReturn(html) == IF ~Truthy(html) THEN "variations" ELSE "finish"

\* mutant: a failed browser fetch is launched again
AfterPlaywrightRaise_Relaunch == IF ~Truthy(html_content) THEN "pw_launch" ELSE "finish"

\* lines 103-108 after the browser fetch raised
AfterPlaywrightRaise == IF ~Truthy(html_content) THEN "variations" ELSE "finish"

\* the message str(e) of what the retry wrapper raises
RaisedMessage(d, r) == IF d = "RetryError" THEN "RetryError" ELSE r

(***************************************************************************)
(* One execution of the body of _scrape_with_aiohttp for the primary url   *)
(* (lines 161-197) and, when the invocation ends, lines 89-97.             *)
(***************************************************************************)
AiohttpAttempt(o) ==
    /\ pc = "aiohttp"
    /\ LET r == AttemptResult(o)
           d == RetryDecision(r, attempt_number)
           html == Html(o.len, "aiohttp", normalized_url)
       IN  CASE d = "retry" ->
                  /\ attempts' = Append(attempts, [result |-> r, wait |-> WaitExponential(attempt_number)])
                  /\ attempt_number' = attempt_number + 1
                  /\ UNCHANGED <<pc, html_content, scraping_method, metadata, trace>>
             [] d = "return" ->
                  /\ attempts' = Append(attempts, [result |-> r, wait |-> 0])
                  /\ html_content' = html
                  /\ scraping_method' = "aiohttp"
                  /\ pc' = AfterPrimaryReturn(html)
                  /\ trace' = IF pc' = "pw_launch"
                              THEN Append(Close(trace, attempt_number, "ok", html),
                                          Event("playwright", normalized_url))
                              ELSE Close(trace, attempt_number, "ok", html)
                  /\ UNCHANGED <<attempt_number, metadata>>
             [] OTHER ->
                  /\ attempts' = Append(attempts, [result |-> r, wait |-> 0])
                  /\ metadata' = [metadata EXCEPT !.errors_encountered =
                                     Append(@, Err("aiohttp", RaisedMessage(d, r)))]
                  /\ pc' = AfterPrimaryRaise
                  /\ trace' = IF pc' = "pw_launch"
                              THEN Append(Close(trace, attempt_number, RaisedMessage(d, r), None),
                                          Event("playwright", normalized_url))
                              ELSE Close(trace, attempt_number, RaisedMessage(d, r), None)
                  /\ UNCHANGED <<attempt_number, html_content, scraping_method>>
    /\ UNCHANGED <<config, other, nav_timeouts, url, normalized_url, variations, target, browser, pw_exc, pw_html, launches, result>>


(***************************************************************************)
(* _scrape_with_playwright (lines 199-250).  It carries no retry decorator:*)
(* whatever it raises reaches lines 103-105 of scrape_website directly.    *)
(***************************************************************************)
\* mutant: the browser fetch's exception is logged but not recorded
PlaywrightRaised_Unrecorded(e, navs) ==
    /\ pc' = AfterPlaywrightRaise
    /\ trace' = Close(trace, navs, e, None)
    /\ UNCHANGED <<metadata, html_content, scraping_method, result>>

\* lines 103-108: the orchestrator's handling of an exception of the browser fetch
PlaywrightRaised(e, navs) ==
    /\ metadata' = [metadata EXCEPT !.errors_encountered = Append(@, Err("playwright", e))]
    /\ pc' = AfterPlaywrightRaise
    /\ trace' = Close(trace, navs, e, None)
    /\ UNCHANGED <<html_content, scraping_method, result>>

\* lines 203-217: start the driver and launch chromium
PwLaunch(ok) ==
    /\ pc = "pw_launch"
    /\ launches' = launches + 1
    /\ IF ok
       THEN /\ browser' = "live"
            /\ pc' = "pw_page"
            /\ UNCHANGED <<metadata, trace, html_content, scraping_method, result>>
       ELSE /\ PlaywrightRaised("LaunchError", 0)
            /\ UNCHANGED browser
    /\ UNCHANGED <<config, other, nav_timeouts, url, normalized_url, variations, target, attempt_number, attempts,
                   pw_exc, pw_html>>

\* lines 220-224: new_page, set_user_agent, set_viewport_size
PwPage(ok) ==
    /\ pc = "pw_page"
    /\ IF ok
       THEN pc' = "pw_goto1" /\ UNCHANGED pw_exc
       ELSE pc' = "pw_close" /\ pw_exc' = "PageError"
    /\ UNCHANGED <<config, other, nav_timeouts, url, normalized_url, html_content, scraping_method, metadata,
                   variations, target, attempt_number, attempts, browser, pw_html,
                   launches, result, trace>>

NavOutcomes == {"ok", "PlaywrightTimeoutError", "NavigationError"}

\* line 228: goto(url, wait_until='networkidle'); a timeout is caught at line 229
PwGoto1(o) ==
    /\ pc = "pw_goto1"
    /\ trace' = Close(trace, 1, "pending", None)
    /\ nav_timeouts' = Append(nav_timeouts, config.timeout * 1000)
    /\ CASE o = "ok" -> pc' = "pw_content" /\ UNCHANGED pw_exc
         [] o = "PlaywrightTimeoutError" -> pc' = "pw_goto2" /\ UNCHANGED pw_exc
         [] OTHER -> pc' = "pw_close" /\ pw_exc' = o
    /\ UNCHANGED <<config, other, url, normalized_url, html_content, scraping_method, metadata,
                   variations, target, attempt_number, attempts, browser, pw_html,
                   launches, result>>

\* mutant: the fallback navigation is granted what is left of the timeout
PwGoto2_RemainingBudget(o) ==
    /\ pc = "pw_goto2"
    /\ trace' = Close(trace, 2, "pending", None)
    /\ nav_timeouts' = Append(nav_timeouts, config.timeout * 1000 - nav_timeouts[1])
    /\ IF o = "ok"
       THEN pc' = "pw_content" /\ UNCHANGED pw_exc
       ELSE pc' = "pw_close" /\ pw_exc' = o
    /\ UNCHANGED <<config, other, url, normalized_url, html_content, scraping_method, metadata,
                   variations, target, attempt_number, attempts, browser, pw_html,
                   launches, result>>

\* line 231: goto(url, wait_until='domcontentloaded'); nothing catches its errors
PwGoto2(o) ==
    /\ pc = "pw_goto2"
    /\ trace' = Close(trace, 2, "pending", None)
    /\ nav_timeouts' = Append(nav_timeouts, config.timeout * 1000)
    /\ IF o = "ok"
       THEN pc' = "pw_content" /\ UNCHANGED pw_exc
       ELSE pc' = "pw_close" /\ pw_exc' = o
    /\ UNCHANGED <<config, other, url, normalized_url, html_content, scraping_method, metadata,
                   variations, target, attempt_number, attempts, browser, pw_html,
                   launches, result>>

ContentOutcomes ==
    [kind : {"content"}, len : 0..MaxBodyLen] \cup {[kind |-> "exception", len |-> 0]}

\* lines 234-247: wait_for_timeout, content, title
PwContent(o) ==
    /\ pc = "pw_content"
    /\ IF o.kind = "content"
       THEN pw_html' = Html(o.len, "playwright", normalized_url) /\ UNCHANGED pw_exc
       ELSE pw_exc' = "ContentError" /\ UNCHANGED pw_html
    /\ pc' = "pw_close"
    /\ UNCHANGED <<config, other, nav_timeouts, url, normalized_url, html_content, scraping_method, metadata,
                   variations, target, attempt_number, attempts, browser, launches, result, trace>>

\* mutant: browser.close() at the end of the try body instead of in a finally
PwClose_OnlyOnSuccess ==
    /\ pc = "pw_close"
    /\ browser' = IF pw_exc = "none" THEN "closed" ELSE browser
    /\ CASE pw_exc = "none" ->
              /\ html_content' = pw_html
              /\ scraping_method' = "playwright"
              /\ pc' = AfterPlaywrightReturn(pw_html)
              /\ trace' = Close(trace, trace[Len(trace)].n, "ok", pw_html)
              /\ UNCHANGED <<metadata, result>>
         [] pw_exc = "CancelledError" ->
              /\ result' = [kind |-> "raised", exc |-> "CancelledError"]
              /\ pc' = "done"
              /\ trace' = Close(trace, trace[Len(trace)].n, "CancelledError", None)
              /\ UNCHANGED <<html_content, scraping_method, metadata>>
         [] OTHER -> PlaywrightRaised(pw_exc, trace[Len(trace)].n)
    /\ pw_exc' = "none"
    /\ UNCHANGED <<config, other, nav_timeouts, url, normalized_url, variations, target, attempt_number, attempts, pw_html,
                   launches>>

\* lines 249-250, then the return or the re-raise, then lines 100-108
PwClose ==
    /\ pc = "pw_close"
    /\ browser' = "closed"
    /\ CASE pw_exc = "none" ->
              /\ html_content' = pw_html
              /\ scraping_method' = "playwright"
              /\ pc' = AfterPlaywrightReturn(pw_html)
              /\ trace' = Close(trace, trace[Len(trace)].n, "ok", pw_html)
              /\ UNCHANGED <<metadata, result>>
         [] pw_exc = "CancelledError" ->
              /\ result' = [kind |-> "raised", exc |-> "CancelledError"]
              /\ pc' = "done"
              /\ trace' = Close(trace, trace[Len(trace)].n, "CancelledError", None)
              /\ UNCHANGED <<html_content, scraping_method, metadata>>
         [] OTHER -> PlaywrightRaised(pw_exc, trace[Len(trace)].n)
    /\ pw_exc' = "none"
    /\ UNCHANGED <<config, other, nav_timeouts, url, normalized_url, variations, target, attempt_number, attempts, pw_html,
                   launches>>

(***************************************************************************)
(* lines 108-110: the variations are generated and the loop is entered.    *)
(* An exception of _generate_url_variations reaches the outer except.      *)
(***************************************************************************)
EnterVariations ==
    /\ pc = "variations"
    /\ IF VariationsRaises(normalized_url)
       THEN /\ Fail("AttributeError")
            /\ UNCHANGED <<variations, target, attempt_number, attempts, trace>>
       ELSE /\ variations' = GenerateUrlVariations(normalized_url)
            /\ target' = 1
            /\ attempt_number' = 1
            /\ attempts' = <<>>
            /\ trace' = Append(trace, Event("aiohttp", variations'[1]))
            /\ pc' = "variation"
            /\ UNCHANGED <<metadata, result>>
    /\ UNCHANGED <<config, other, nav_timeouts, url, normalized_url, html_content, scraping_method, browser, pw_exc, pw_html,
                   launches>>

(***************************************************************************)
(* One execution of the body of _scrape_with_aiohttp for a variation, and, *)
(* when the invocation ends, lines 113-120.                                *)
(***************************************************************************)
VariationAttempt(o) ==
    /\ pc = "variation"
    /\ LET r == AttemptResult(o)
           d == RetryDecision(r, attempt_number)
           u == variations[target]
           html == Html(o.len, "aiohttp", u)
       IN  CASE d = "retry" ->
                  /\ attempts' = Append(attempts, [result |-> r, wait |-> WaitExponential(attempt_number)])
                  /\ attempt_number' = attempt_number + 1
                  /\ UNCHANGED <<pc, html_content, scraping_method, normalized_url, target, trace>>
             [] d = "return" ->
                  /\ attempts' = Append(attempts, [result |-> r, wait |-> 0])
                  /\ html_content' = html
                  /\ scraping_method' = "aiohttp_variation"
                  /\ normalized_url' = u
                  /\ pc' = "finish"
                  /\ trace' = Close(trace, attempt_number, "ok", html)
                  /\ UNCHANGED <<attempt_number, target>>
             [] OTHER ->
                  /\ IF target < Len(variations)
                     THEN /\ target' = target + 1
                          /\ attempt_number' = 1
                          /\ attempts' = <<>>
                          /\ trace' = Append(Close(trace, attempt_number, RaisedMessage(d, r), None),
                                             Event("aiohttp", variations[target + 1]))
                          /\ UNCHANGED pc
                     ELSE /\ pc' = "finish"
                          /\ attempts' = Append(attempts, [result |-> r, wait |-> 0])
                          /\ trace' = Close(trace, attempt_number, RaisedMessage(d, r), None)
                          /\ UNCHANGED <<attempt_number, target>>
                  /\ UNCHANGED <<html_content, scraping_method, normalized_url>>
    /\ UNCHANGED <<config, other, nav_timeouts, url, metadata, variations, browser, pw_exc, pw_html, launches, result>>

\* mutant: the check of lines 122-123 is missing
Finish_NoContentCheck(extractor_raises) ==
    /\ pc = "finish"
    /\ trace' = Append(trace, [ev |-> "extract", url |-> normalized_url, n |-> 0,
                               outcome |-> IF extractor_raises THEN "raised" ELSE "ok",
                               html |-> html_content])
    /\ IF extractor_raises
       THEN Fail("ExtractionError")
       ELSE /\ metadata' = [metadata EXCEPT !.scraping_method = scraping_method,
                                            !.scraping_success = TRUE,
                                            !.content_length =
                                                IF html_content.kind = "html"
                                                THEN html_content.len ELSE 0,
                                            !.scraping_duration_seconds = Elapsed("scrape"),
                                            !.total_processing_time = Elapsed("scrape")]
            /\ result' = [kind |-> "returned",
                          doc |-> ExtractStructuredData(html_content, normalized_url),
                          meta |-> metadata']
            /\ pc' = "done"
    /\ UNCHANGED <<config, other, nav_timeouts, url, normalized_url, html_content, scraping_method, variations, target,
                   attempt_number, attempts, browser, pw_exc, pw_html, launches>>

(***************************************************************************)
(* lines 122-138: the check of html_content, the extraction and the        *)
(* success return; any exception reaches lines 140-159.                    *)
(***************************************************************************)
Finish(extractor_raises) ==
    /\ pc = "finish"
    /\ IF ~Truthy(html_content)
       THEN /\ ~extractor_raises
            /\ Fail("All scraping methods failed")
            /\ UNCHANGED trace
       ELSE /\ trace' = Append(trace, [ev |-> "extract", url |-> normalized_url, n |-> 0,
                                       outcome |-> IF extractor_raises THEN "raised" ELSE "ok",
                                       html |-> html_content])
            /\ IF extractor_raises
               THEN Fail("ExtractionError")
               ELSE /\ metadata' = [metadata EXCEPT !.scraping_method = scraping_method,
                                                    !.scraping_success = TRUE,
                                                    !.content_length = html_content.len,
                                                    !.scraping_duration_seconds = Elapsed("scrape"),
                                                    !.total_processing_time = Elapsed("scrape")]
                    /\ result' = [kind |-> "returned",
                                  doc |-> ExtractStructuredData(html_content, normalized_url),
                                  meta |-> metadata']
                    /\ pc' = "done"
    /\ UNCHANGED <<config, other, nav_timeouts, url, normalized_url, html_content, scraping_method, variations, target,
                   attempt_number, attempts, browser, pw_exc, pw_html, launches>>

Next ==
    \/ Begin
    \/ \E o \in HttpOutcomes : AiohttpAttempt(o)
    \/ \E ok \in BOOLEAN : PwLaunch(ok)
    \/ \E ok \in BOOLEAN : PwPage(ok)
    \/ \E o \in NavOutcomes : PwGoto1(o)
    \/ \E o \in NavOutcomes : PwGoto2(o)
    \/ \E o \in ContentOutcomes : PwContent(o)
    \/ PwClose
    \/ EnterVariations
    \/ \E o \in HttpOutcomes : VariationAttempt(o)
    \/ \E x \in BOOLEAN : Finish(x)

Spec == Init /\ [][Next]_vars

(***************************************************************************)
(* External cancellation of the task running scrape_website: asyncio       *)
(* raises CancelledError at the await the coroutine is suspended in.       *)
(* CancelledError is a BaseException: the retry predicate of line 164 and  *)
(* the handlers of lines 92, 103, 118, 140 and 229 do not catch it; inside *)
(* the try of lines 219-247 it runs the finally of lines 249-250.  The     *)
(* cancellation is delivered once, while a fetch is in flight.             *)
(***************************************************************************)
InsideBrowserTry == {"pw_page", "pw_goto1", "pw_goto2", "pw_content"}

Cancel ==
    /\ pc \in {"aiohttp", "variation", "pw_launch"} \cup InsideBrowserTry
    /\ IF pc \in InsideBrowserTry
       THEN /\ pw_exc' = "CancelledError"
            /\ pc' = "pw_close"
            /\ UNCHANGED <<result, trace>>
       ELSE /\ result' = [kind |-> "raised", exc |-> "CancelledError"]
            /\ pc' = "done"
            /\ trace' = Close(trace, trace[Len(trace)].n, "CancelledError", None)
            /\ UNCHANGED pw_exc
    /\ UNCHANGED <<config, other, nav_timeouts, url, normalized_url, html_content, scraping_method, metadata,
                   variations, target, attempt_number, attempts, browser, pw_html,
                   launches>>

NextCancel == Next \/ Cancel

SpecCancel == Init /\ [][NextCancel]_vars


(***************************************************************************)
(* gather_intelligence (company_intelligence_agent.py 66-78): the pair     *)
(* returned by scrape_website is handed to analyze_company_content         *)
(* (ai_analyzer.py 65-151), which holds the same ScrapingMetadata object.  *)
(* result.meta is the record as it was returned, metadata the object.      *)
(***************************************************************************)
AnalysisOutcomes == {"no_client", "ok", "exception"}

\* mutant: a failed analysis also marks the scrape as failed
AnalyzeCompanyContent_ClearsSuccess(o) ==
    /\ pc = "done"
    /\ result.kind = "returned"
    /\ pc' = "analyzed"
    /\ metadata' =
          CASE o = "no_client" -> metadata
            [] o = "ok" ->
                 [metadata EXCEPT
                    !.ai_model_used = "model",
                    !.analysis_duration_seconds = Elapsed("analysis"),
                    !.total_processing_time =
                        [kind |-> "sum", a |-> metadata.scraping_duration_seconds,
                         b |-> Elapsed("analysis")]]
            [] OTHER ->
                 [metadata EXCEPT
                    !.scraping_success = FALSE,
                    !.errors_encountered = Append(@, Err("ai_analysis", "AnalysisError"))]
    /\ UNCHANGED <<config, other, nav_timeouts, url, normalized_url, html_content,
                   scraping_method, variations, target, attempt_number, attempts,
                   browser, pw_exc, pw_html, launches, result, trace>>

\* analyze_company_content: without a client the fallback is returned at
\* line 87; lines 123-127 on success; line 150 when the analysis raises
AnalyzeCompanyContent(o) ==
    /\ pc = "done"
    /\ result.kind = "returned"
    /\ pc' = "analyzed"
    /\ metadata' =
          CASE o = "no_client" -> metadata
            [] o = "ok" ->
                 [metadata EXCEPT
                    !.ai_model_used = "model",
                    !.analysis_duration_seconds = Elapsed("analysis"),
                    !.total_processing_time =
                        [kind |-> "sum", a |-> metadata.scraping_duration_seconds,
                         b |-> Elapsed("analysis")]]
            [] OTHER ->
                 [metadata EXCEPT
                    !.errors_encountered = Append(@, Err("ai_analysis", "AnalysisError"))]
    /\ UNCHANGED <<config, other, nav_timeouts, url, normalized_url, html_content,
                   scraping_method, variations, target, attempt_number, attempts,
                   browser, pw_exc, pw_html, launches, result, trace>>

NextAgent == Next \/ \E o \in AnalysisOutcomes : AnalyzeCompanyContent(o)

SpecAgent == Init /\ [][NextAgent]_vars

(***************************************************************************)
(* Two scrape_website calls on one scraper instance, run by one event      *)
(* loop.  Everything a call works with is a local of its coroutine frame   *)
(* (lines 68-83 and the frames of the fetches it awaits); the instance     *)
(* attributes of lines 38-58 are only read.  The variables above are the   *)
(* frame of the running call, other is the frame of the suspended one; at  *)
(* an await the loop may resume the other call.                            *)
(***************************************************************************)
Frame ==
    [pc |-> pc, url |-> url, normalized_url |-> normalized_url,
     html_content |-> html_content, scraping_method |-> scraping_method,
     metadata |-> metadata, variations |-> variations, target |-> target,
     attempt_number |-> attempt_number, attempts |-> attempts, browser |-> browser,
     pw_exc |-> pw_exc, pw_html |-> pw_html, launches |-> launches,
     result |-> result, trace |-> trace, nav_timeouts |-> nav_timeouts]

\* the frame of a call that has been created and has not run yet
StartFrame(u) ==
    [pc |-> "start", url |-> u, normalized_url |-> <<>>,
     html_content |-> None, scraping_method |-> "None",
     metadata |-> InitialMetadata, variations |-> <<>>, target |-> 0,
     attempt_number |-> 0, attempts |-> <<>>, browser |-> "none",
     pw_exc |-> "none", pw_html |-> None, launches |-> 0,
     result |-> [kind |-> "none"], trace |-> <<>>, nav_timeouts |-> <<>>]

\* mutant: the metadata object is an attribute of the scraper instance
Resume_MetadataOnSelf(f) ==
    /\ pc' = f.pc
    /\ url' = f.url
    /\ normalized_url' = f.normalized_url
    /\ html_content' = f.html_content
    /\ scraping_method' = f.scraping_method
    /\ metadata' = metadata
    /\ variations' = f.variations
    /\ target' = f.target
    /\ attempt_number' = f.attempt_number
    /\ attempts' = f.attempts
    /\ browser' = f.browser
    /\ pw_exc' = f.pw_exc
    /\ pw_html' = f.pw_html
    /\ launches' = f.launches
    /\ result' = f.result
    /\ trace' = f.trace
    /\ nav_timeouts' = f.nav_timeouts

\* the event loop resumes the coroutine whose frame is f
Resume(f) ==
    /\ pc' = f.pc
    /\ url' = f.url
    /\ normalized_url' = f.normalized_url
    /\ html_content' = f.html_content
    /\ scraping_method' = f.scraping_method
    /\ metadata' = f.metadata
    /\ variations' = f.variations
    /\ target' = f.target
    /\ attempt_number' = f.attempt_number
    /\ attempts' = f.attempts
    /\ browser' = f.browser
    /\ pw_exc' = f.pw_exc
    /\ pw_html' = f.pw_html
    /\ launches' = f.launches
    /\ result' = f.result
    /\ trace' = f.trace
    /\ nav_timeouts' = f.nav_timeouts

\* the awaits of scrape_website and of the fetches (lines 90, 101, 113, 178,
\* 203-250), the call not yet started, the call that has returned
SuspensionPoints ==
    {"start", "aiohttp", "pw_launch", "pw_page", "pw_goto1", "pw_goto2",
     "pw_content", "pw_close", "variation", "done"}

Switch ==
    /\ other.pc \notin {"absent", "done"}
    /\ pc \in SuspensionPoints
    /\ other' = Frame
    /\ Resume(other)
    /\ UNCHANGED config

\* the two calls: scrape_website("a.co") and scrape_website("http://a.co")
InitConcurrent ==
    /\ config = [timeout |-> 30, max_retries |-> 3, retry_delay |-> 2]
    /\ other = StartFrame(Str_http \o Str_aco)
    /\ pc = "start"
    /\ url = Str_aco
    /\ normalized_url = <<>>
    /\ html_content = None
    /\ scraping_method = "None"
    /\ metadata = InitialMetadata
    /\ variations = <<>>
    /\ target = 0
    /\ attempt_number = 0
    /\ attempts = <<>>
    /\ browser = "none"
    /\ pw_exc = "none"
    /\ pw_html = None
    /\ launches = 0
    /\ result = [kind |-> "none"]
    /\ trace = <<>>
    /\ nav_timeouts = <<>>

\* what the servers answer while the two calls run: a body, or an error
\* that is retried
ConcurrentHttpOutcomes ==
    { [kind |-> "response", status |-> 200, len |-> 1],
      [kind |-> "exception", exc |-> "TimeoutError"] }

NextConcurrent ==
    \/ Begin
    \/ \E o \in ConcurrentHttpOutcomes : AiohttpAttempt(o)
    \/ \E ok \in BOOLEAN : PwLaunch(ok)
    \/ \E ok \in BOOLEAN : PwPage(ok)
    \/ \E o \in NavOutcomes : PwGoto1(o)
    \/ \E o \in NavOutcomes : PwGoto2(o)
    \/ \E o \in ContentOutcomes : PwContent(o)
    \/ PwClose
    \/ EnterVariations
    \/ \E o \in ConcurrentHttpOutcomes : VariationAttempt(o)
    \/ \E x \in BOOLEAN : Finish(x)
    \/ Switch

SpecConcurrent == InitConcurrent /\ [][NextConcurrent]_vars


(***************************************************************************)
(* Vocabulary of the properties.  trace[1] is the lightweight fetch of the *)
(* primary url; a fetch "fails" when it raises and "succeeds" when it      *)
(* returns markup.                                                         *)
(***************************************************************************)
IsFetch(e) == e.ev \in {"aiohttp", "playwright"}
FetchRaised(e) == IsFetch(e) /\ e.outcome \notin {"pending", "ok"}
FetchReturned(e) == IsFetch(e) /\ e.outcome = "ok"
IsVariationFetch(i) == i > 1 /\ trace[i].ev = "aiohttp"
BrowserAttempted == \E i \in DOMAIN trace : trace[i].ev = "playwright"
ExtractorRaised == \E i \in DOMAIN trace : trace[i].ev = "extract" /\ trace[i].outcome = "raised"
CallReturned == pc = "done" /\ result.kind = "returned"

(***************************************************************************)
(* C1: the first attempt is the lightweight fetch of the normalized        *)
(* primary url; the browser fetch is attempted if and only if that fetch   *)
(* failed; when it returned markup, of whatever content, there is no       *)
(* browser launch and no variation attempt, and (the extractor not         *)
(* raising) the call returns the document of that markup.                  *)
(***************************************************************************)
C1_BrowserIffLightweightFailed ==
    Len(trace) >= 1 =>
        /\ trace[1].ev = "aiohttp"
        /\ trace[1].url = NormalizeUrl(url)
        /\ (trace[1].outcome # "pending" => (BrowserAttempted <=> FetchRaised(trace[1])))
        /\ (FetchReturned(trace[1]) =>
              /\ launches = 0
              /\ \A i \in 2..Len(trace) : trace[i].ev = "extract"
              /\ (CallReturned /\ ~ExtractorRaised =>
                    result.doc = ExtractStructuredData(trace[1].html, NormalizeUrl(url))))

(***************************************************************************)
(* C2: a variation is attempted only after the lightweight fetch and the   *)
(* browser fetch of the primary url have both failed; variations are       *)
(* fetched in the normalizer's order, by the lightweight fetch only, and   *)
(* none is attempted after one has succeeded.                              *)
(***************************************************************************)
C2_VariationsOnlyAfterBothFailed ==
    \A i \in DOMAIN trace :
        IsVariationFetch(i) =>
            /\ FetchRaised(trace[1])
            /\ trace[2].ev = "playwright" /\ FetchRaised(trace[2])
            /\ i >= 3
            /\ trace[i].url = GenerateUrlVariations(NormalizeUrl(url))[i - 2]
            /\ launches <= 1
            /\ \A j \in 3..(i - 1) : IsVariationFetch(j) /\ FetchRaised(trace[j])

(***************************************************************************)
(* C3: when both strategies failed on the primary url and a variation then *)
(* succeeded, the returned document's url is the winning variation, the    *)
(* extractor was run with that variation as its url, and the record has    *)
(* the variation label and success = true.  (Stated for the calls whose    *)
(* extractor does not raise.)                                              *)
(***************************************************************************)
C3_VariationWinReported ==
    \A i \in DOMAIN trace :
        ( /\ CallReturned
          /\ ~ExtractorRaised
          /\ IsVariationFetch(i) /\ FetchReturned(trace[i])
          /\ FetchRaised(trace[1]) /\ FetchRaised(trace[2]) )
        => /\ result.doc.url = trace[i].url
           /\ \E j \in DOMAIN trace : /\ trace[j].ev = "extract"
                                      /\ trace[j].url = trace[i].url
                                      /\ trace[j].html = trace[i].html
           /\ result.meta.scraping_method = "aiohttp_variation"
           /\ result.meta.scraping_success = TRUE

(***************************************************************************)
(* C4: when the lightweight fetch, the browser fetch and every variation   *)
(* fetch all failed, the call returns a document with empty cleanText,     *)
(* metadata, structuredData, contentSections, technologySignatures,        *)
(* contactInfo and navigationLabels, and a record with success = false     *)
(* and at least one error.                                                 *)
(***************************************************************************)
AllFetchesFailed ==
    /\ pc = "done"
    /\ BrowserAttempted
    /\ \A i \in DOMAIN trace : FetchRaised(trace[i])

C4_AllFailEmptyDocument ==
    AllFetchesFailed =>
        /\ result.kind = "returned"
        /\ result.doc.html_text = <<>>
        /\ result.doc.meta_data = <<>>
        /\ result.doc.structured_data = <<>>
        /\ result.doc.content_sections = <<>>
        /\ result.doc.technology_stack = <<>>
        /\ result.doc.contact_info = <<>>
        /\ result.doc.navigation_structure = <<>>
        /\ result.meta.scraping_success = FALSE
        /\ Len(result.meta.errors_encountered) >= 1

C4_Witness ==
    /\ AllFetchesFailed
    /\ Len(trace) = 4
    /\ result.kind = "returned"

(***************************************************************************)
(* C5 as stated: on terminal failure the errors hold one entry for every   *)
(* failed attempt (primary lightweight fetch, browser fetch, each          *)
(* variation fetch), in the order of the attempts.  (Stated for the calls  *)
(* in which every fetch raised.)                                           *)
(***************************************************************************)
FailedFetches == SelectSeq(trace, FetchRaised)
FailedPrimaryFetches ==
    SelectSeq(SubSeq(trace, 1, IF Len(trace) < 2 THEN Len(trace) ELSE 2), FetchRaised)
ErrorOf(e) == Err(e.ev, e.outcome)
TerminalFailure == CallReturned /\ result.meta.scraping_success = FALSE
AttemptErrors ==
    SelectSeq(result.meta.errors_encountered, LAMBDA x : x.prefix # "final_error")

C5_EveryFailedAttemptRecorded ==
    TerminalFailure /\ AllFetchesFailed =>
        /\ Len(AttemptErrors) = Len(FailedFetches)
        /\ \A i \in 1..Len(AttemptErrors) :
               AttemptErrors[i].prefix = FailedFetches[i].ev

(***************************************************************************)
(* C5 amended: on terminal failure the errors are, in the order of the     *)
(* attempts, one "aiohttp:" entry if the lightweight fetch of the primary  *)
(* url raised and one "playwright:" entry if the browser fetch raised      *)
(* (one per invocation, not one per retry), followed by one "final_error:" *)
(* entry; a failed variation fetch adds no entry.                          *)
(***************************************************************************)
C5_PrimaryFailuresRecorded ==
    TerminalFailure =>
        LET errs == result.meta.errors_encountered
            F == FailedPrimaryFetches
        IN  /\ Len(errs) = Len(F) + 1
            /\ \A i \in 1..Len(F) : errs[i] = ErrorOf(F[i])
            /\ errs[Len(errs)].prefix = "final_error"

C5_Witness ==
    /\ TerminalFailure
    /\ Len(FailedFetches) = 4
    /\ Len(result.meta.errors_encountered) = 3

(***************************************************************************)
(* C6: for every input string and every combination of failures of the     *)
(* fetches, of the variation generation and of the extractor, the call     *)
(* ends by returning a (document, record) pair and raises nothing.         *)
(***************************************************************************)
DocumentKeys ==
    {"url", "html_text", "meta_data", "structured_data", "content_sections",
     "technology_stack", "contact_info", "navigation_structure"}

C6_AlwaysReturnsPair ==
    /\ result.kind # "raised"
    /\ pc = "done" =>
          /\ result.kind = "returned"
          /\ DOMAIN result.doc = DocumentKeys
          /\ result.meta = metadata

C6_Witness ==
    /\ CallReturned
    /\ result.meta.errors_encountered # <<>>
    /\ result.meta.errors_encountered[Len(result.meta.errors_encountered)]
          = Err("final_error", "AttributeError")

(***************************************************************************)
(* C7: the extractor runs at most once, only after a fetch has returned    *)
(* the winning markup and only on that markup; the record has success =    *)
(* true exactly when the returned document is the extraction of the        *)
(* winning markup, and otherwise the document is the empty default.        *)
(***************************************************************************)
ExtractorRuns == {i \in DOMAIN trace : trace[i].ev = "extract"}

C7_ExtractOnlyWinningMarkup ==
    /\ Cardinality(ExtractorRuns) <= 1
    /\ \A i \in ExtractorRuns :
          /\ i = Len(trace) /\ i > 1
          /\ FetchReturned(trace[i - 1])
          /\ trace[i].html = trace[i - 1].html
          /\ trace[i].html.len > 0
    /\ CallReturned =>
          IF result.meta.scraping_success
          THEN \E i \in ExtractorRuns :
                  /\ trace[i].outcome = "ok"
                  /\ result.doc.url = trace[i].url
                  /\ result.doc.html_text = <<"clean_text", trace[i].html>>
                  /\ result.doc.technology_stack = <<"technologies", trace[i].html>>
          ELSE /\ result.doc.html_text = <<>>
               /\ result.doc.technology_stack = <<>>
               /\ \A i \in ExtractorRuns : trace[i].outcome = "raised"

C7_Witness ==
    /\ CallReturned
    /\ result.meta.scraping_success
    /\ Len(trace) = 5


(***************************************************************************)
(* C8 as stated: in every invocation of either strategy a network or       *)
(* timeout failure is followed by another attempt until 3 have been made,  *)
(* any other failure is not, and no invocation makes more than 3 attempts. *)
(***************************************************************************)
HttpInFlight == pc \in {"aiohttp", "variation"}
NetworkOrTimeout == {"ClientError", "TimeoutError"}
AttemptFollowed(i) == i < Len(attempts) \/ (HttpInFlight /\ attempt_number = i + 1)
BrowserRuns == {i \in DOMAIN trace : trace[i].ev = "playwright"}

LightweightRetryPolicy ==
    /\ attempt_number <= 3
    /\ Len(attempts) <= 3
    /\ \A i \in DOMAIN attempts :
          /\ (attempts[i].result \in NetworkOrTimeout /\ i < 3) => AttemptFollowed(i)
          /\ (attempts[i].result \notin NetworkOrTimeout) => ~AttemptFollowed(i)
    /\ \A i \in DOMAIN trace :
          (trace[i].ev = "aiohttp" /\ trace[i].outcome # "pending") =>
              /\ trace[i].n \in 1..3
              /\ (trace[i].outcome = "RetryError" => trace[i].n = 3)

C8_BothStrategiesRetried ==
    /\ LightweightRetryPolicy
    /\ launches <= 3
    /\ \A i \in BrowserRuns :
          trace[i].outcome = "PlaywrightTimeoutError" => launches = 3

(***************************************************************************)
(* C8 amended: in every invocation of the lightweight fetch a network or   *)
(* timeout failure (aiohttp.ClientError, asyncio.TimeoutError) is followed *)
(* by another attempt until 3 have been made, any other failure is not,    *)
(* and no invocation makes more than 3 attempts; an invocation of the      *)
(* browser fetch makes exactly one attempt whatever its failure.           *)
(***************************************************************************)
C8_LightweightRetriedBrowserOnce ==
    /\ LightweightRetryPolicy
    /\ launches <= Cardinality(BrowserRuns)
    /\ \A i \in BrowserRuns : trace[i].outcome # "pending" => launches = 1

C8_Witness ==
    /\ Len(attempts) = 3
    /\ \A i \in DOMAIN attempts : attempts[i].result \in NetworkOrTimeout
    /\ trace[1].outcome = "RetryError"
    /\ \E i \in BrowserRuns : trace[i].outcome = "PlaywrightTimeoutError"
    /\ launches = 1

C10_BrowserLaunchedAtMostOnce ==
    /\ launches <= 1
    /\ Cardinality(BrowserRuns) <= 1
    /\ \A i \in BrowserRuns :
          FetchRaised(trace[i]) =>
              /\ i < Len(trace) =>
                    /\ trace[i + 1].ev = "aiohttp"
                    /\ trace[i + 1].url = GenerateUrlVariations(NormalizeUrl(url))[1]
              /\ i = Len(trace) =>
                    \/ pc = "variations"
                    \/ pc = "done" /\ VariationsRaises(NormalizeUrl(url))

C10_Witness ==
    \E i \in BrowserRuns :
        /\ FetchRaised(trace[i])
        /\ i < Len(trace)
        /\ trace[i + 1].ev = "aiohttp"
        /\ launches = 1

(***************************************************************************)
(* The fetch that won a call: the one whose markup the extractor turned    *)
(* into the returned document.                                             *)
(***************************************************************************)
Winners ==
    {i \in DOMAIN trace :
        /\ FetchReturned(trace[i])
        /\ trace[Len(trace)].ev = "extract"
        /\ trace[Len(trace)].outcome = "ok"
        /\ trace[Len(trace)].html = trace[i].html}

\* the method of the returned record follows the winner, with these labels
MethodLabelled(primary, rendered, variation, failed) ==
    CallReturned =>
        /\ result.meta.scraping_method \in {primary, rendered, variation, failed}
        /\ (result.meta.scraping_success =>
              /\ Winners # {}
              /\ \A i \in Winners :
                    result.meta.scraping_method =
                        IF trace[i].ev = "playwright" THEN rendered
                        ELSE IF i = 1 THEN primary ELSE variation)
        /\ (~result.meta.scraping_success => result.meta.scraping_method = failed)

(***************************************************************************)
(* C11: the method of the session record is "http" when the primary        *)
(* lightweight fetch won, "browser" when the browser fetch won,            *)
(* "http_variation" when a variation won and "none" when the call failed;  *)
(* no other value is returned.                                             *)
(***************************************************************************)
C11_MethodHttpBrowserNone == MethodLabelled("http", "browser", "http_variation", "none")

(***************************************************************************)
(* C11 amended: the method of the session record is "aiohttp" when the     *)
(* primary lightweight fetch won, "playwright" when the browser fetch won, *)
(* "aiohttp_variation" when a variation won and "unknown" when the call    *)
(* failed; no other value is returned.                                     *)
(***************************************************************************)
C11_MethodAiohttpPlaywrightUnknown ==
    MethodLabelled("aiohttp", "playwright", "aiohttp_variation", "unknown")

C11_Witness ==
    /\ CallReturned
    /\ ~result.meta.scraping_success
    /\ result.meta.scraping_method = "unknown"
    /\ FetchReturned(trace[1])
    /\ BrowserAttempted

\* the current invocation of the lightweight fetch has ended and every one
\* of its attempts failed with a network or timeout error
InvocationExhausted ==
    /\ attempts # <<>>
    /\ ~AttemptFollowed(Len(attempts))
    /\ \A i \in DOMAIN attempts : attempts[i].result \in NetworkOrTimeout

(***************************************************************************)
(* C12: the retry bound and the backoff floor are the configured values:   *)
(* an invocation of the lightweight fetch whose attempts all fail with     *)
(* network errors makes exactly config.max_retries attempts and waits at   *)
(* least config.retry_delay seconds before its second attempt.             *)
(***************************************************************************)
C12_ConfiguredRetryBoundAndFloor ==
    InvocationExhausted =>
        /\ Len(attempts) = config.max_retries
        /\ attempts[1].wait >= config.retry_delay

RECURSIVE SumSeq(_)
SumSeq(q) == IF q = <<>> THEN 0 ELSE Head(q) + SumSeq(Tail(q))

(***************************************************************************)
(* C14: in one browser fetch the 'network idle' navigation and the 'DOM    *)
(* ready' fallback navigation share one timeout budget: the navigation     *)
(* time granted across both never exceeds the configured timeout.          *)
(***************************************************************************)
C14_SharedNavigationBudget == SumSeq(nav_timeouts) <= config.timeout * 1000

(***************************************************************************)
(* C14 amended: in one browser fetch each of the two navigations is        *)
(* granted the full configured timeout, the fallback only after the first  *)
(* timed out: the navigation time granted in total is at most twice the    *)
(* configured timeout.                                                     *)
(***************************************************************************)
C14_FullTimeoutPerNavigation ==
    /\ Len(nav_timeouts) <= 2
    /\ \A i \in DOMAIN nav_timeouts : nav_timeouts[i] = config.timeout * 1000
    /\ SumSeq(nav_timeouts) <= 2 * config.timeout * 1000
    /\ pc = "pw_goto2" => Len(nav_timeouts) = 1
    /\ pc = "pw_goto1" => nav_timeouts = <<>>

C14_Witness ==
    /\ Len(nav_timeouts) = 2
    /\ SumSeq(nav_timeouts) = 2 * config.timeout * 1000
    /\ \E i \in BrowserRuns : trace[i].outcome = "ok" /\ trace[i].n = 2

\* the scraper's fields of the record, errors apart, are as they were returned
ScraperFieldsKept ==
    /\ metadata.scraping_method = result.meta.scraping_method
    /\ metadata.scraping_success = result.meta.scraping_success
    /\ metadata.content_length = result.meta.content_length
    /\ metadata.scraping_duration_seconds = result.meta.scraping_duration_seconds

RecordHandedOver == pc \in {"done", "analyzed"} /\ result.kind = "returned"

(***************************************************************************)
(* C15: after scrape_website has returned the session record, none of its  *)
(* fields method, success, content length, duration or errors is changed   *)
(* by a component other than the scraper, the analyzer included.           *)
(***************************************************************************)
C15_RecordUnchangedAfterReturn ==
    RecordHandedOver =>
        /\ ScraperFieldsKept
        /\ metadata.errors_encountered = result.meta.errors_encountered

(***************************************************************************)
(* C15 amended: after scrape_website has returned the session record, its  *)
(* fields method, success, content length and duration are not changed by  *)
(* the analyzer; the analyzer may append one "ai_analysis" entry to        *)
(* errors, after the entries the scraper wrote, which stay as returned.    *)
(***************************************************************************)
C15_OnlyAnalysisErrorAppended ==
    RecordHandedOver =>
        /\ ScraperFieldsKept
        /\ \/ metadata.errors_encountered = result.meta.errors_encountered
           \/ metadata.errors_encountered =
                 Append(result.meta.errors_encountered, Err("ai_analysis", "AnalysisError"))

C15_Witness ==
    /\ pc = "analyzed"
    /\ result.meta.scraping_success
    /\ metadata.errors_encountered # result.meta.errors_encountered
    /\ metadata.errors_encountered[Len(metadata.errors_encountered)].prefix = "ai_analysis"

(***************************************************************************)
(* What a call returns when it runs alone, as a function of its argument   *)
(* and of what its own fetches and its own extractor run answered (the     *)
(* history tr of that call).                                               *)
(***************************************************************************)
RECURSIVE SoloErrors(_, _)
SoloErrors(tr, i) ==
    IF i > Len(tr) THEN <<>>
    ELSE (IF FetchRaised(tr[i]) /\ (i = 1 \/ tr[i].ev = "playwright")
          THEN <<Err(tr[i].ev, tr[i].outcome)>> ELSE <<>>) \o SoloErrors(tr, i + 1)

SoloResult(u, tr) ==
    LET last == tr[Len(tr)]
        label == IF last.html.strategy = "playwright" THEN "playwright"
                 ELSE IF tr[1].html = last.html THEN "aiohttp"
                 ELSE "aiohttp_variation"
        message == IF last.ev = "extract" THEN "ExtractionError"
                   ELSE IF last.ev = "playwright" THEN "AttributeError"
                   ELSE "All scraping methods failed"
        effective == IF last.outcome \in {"ok", "raised"} /\ last.ev # "playwright"
                     THEN last.url ELSE NormalizeUrl(u)
    IN  IF last.ev = "extract" /\ last.outcome = "ok"
        THEN [kind |-> "returned",
              doc |-> ExtractStructuredData(last.html, last.url),
              meta |-> [InitialMetadata EXCEPT
                          !.scraping_method = label,
                          !.scraping_success = TRUE,
                          !.content_length = last.html.len,
                          !.scraping_duration_seconds = Elapsed("scrape"),
                          !.total_processing_time = Elapsed("scrape"),
                          !.errors_encountered = SoloErrors(tr, 1)]]
        ELSE [kind |-> "returned",
              doc |-> EmptyDocument(effective),
              meta |-> [InitialMetadata EXCEPT
                          !.scraping_duration_seconds = Elapsed("scrape"),
                          !.total_processing_time = Elapsed("scrape"),
                          !.errors_encountered =
                              Append(SoloErrors(tr, 1), Err("final_error", message))]]

\* every url a call with argument u can fetch or report
OwnUrls(u) ==
    {NormalizeUrl(u)} \cup
    (IF VariationsRaises(NormalizeUrl(u)) THEN {}
     ELSE {GenerateUrlVariations(NormalizeUrl(u))[k] : k \in 1..2})

\* the call with frame f has returned what it returns alone, and nothing in
\* its result stems from a url of another call
ReturnsAsAlone(f) ==
    f.pc = "done" =>
        /\ f.result = SoloResult(f.url, f.trace)
        /\ f.result.doc.url \in OwnUrls(f.url)
        /\ \A i \in DOMAIN f.trace : f.trace[i].url \in OwnUrls(f.url)

(***************************************************************************)
(* C16: two scrape_website calls running concurrently on one scraper       *)
(* instance, interleaved at any suspension point, each return the document *)
(* and the session record they return when run alone: no error entry,      *)
(* method label, effective url or markup of one call appears in the result *)
(* of the other.                                                           *)
(***************************************************************************)
C16_ConcurrentCallsIndependent ==
    /\ ReturnsAsAlone(Frame)
    /\ other.pc # "absent" => ReturnsAsAlone(other)

C16_Witness ==
    /\ pc = "done"
    /\ other.pc = "done"
    /\ result.meta.scraping_success
    /\ result.meta.scraping_method = "aiohttp_variation"
    /\ ~other.result.meta.scraping_success
    /\ Len(other.result.meta.errors_encountered) = 3
    /\ result.meta.errors_encountered # other.result.meta.errors_encountered

(***************************************************************************)
(* The url functions applied on their own: _normalize_url to an input      *)
(* string, _normalize_url to its own result, _generate_url_variations to   *)
(* the normalized url.  The inputs are an optional scheme prefix, an       *)
(* optional host and 0..MaxSlashes trailing slashes.                       *)
(***************************************************************************)
MaxSlashes == 2

Slashes(k) == [i \in 1..k |-> "/"]

UrlPrefixes == {<<>>, Str_http, Str_https, <<"h", "t", "t", "p", ":">>}

UrlHosts == {<<>>, Str_aco, Str_www \o Str_aco, <<"W", "W", "W", ".">> \o Str_aco}

UrlInputs == {p \o h \o Slashes(k) : p \in UrlPrefixes, h \in UrlHosts, k \in 0..MaxSlashes}

InitUrl ==
    /\ pc = "url_normalize"
    /\ url \in UrlInputs
    /\ normalized_url = <<>>
    /\ html_content = None
    /\ scraping_method = "None"
    /\ metadata = InitialMetadata
    /\ variations = <<>>
    /\ target = 0
    /\ attempt_number = 0
    /\ attempts = <<>>
    /\ browser = "none"
    /\ pw_exc = "none"
    /\ pw_html = None
    /\ launches = 0
    /\ result = [kind |-> "none"]
    /\ trace = <<>>
    /\ nav_timeouts = <<>>
    /\ config = [timeout |-> 30, max_retries |-> 3, retry_delay |-> 2]
    /\ other = NoCall

\* normalized_url = self._normalize_url(url)
ApplyNormalize ==
    /\ pc = "url_normalize"
    /\ normalized_url' = NormalizeUrl(url)
    /\ pc' = "url_renormalize"
    /\ UNCHANGED <<config, other, nav_timeouts, url, html_content, scraping_method,
                   metadata, variations, target, attempt_number, attempts, browser,
                   pw_exc, pw_html, launches, result, trace>>

\* self._normalize_url(normalized_url)
ApplyNormalizeAgain ==
    /\ pc = "url_renormalize"
    /\ result' = [kind |-> "url", value |-> NormalizeUrl(normalized_url)]
    /\ pc' = "url_variations"
    /\ UNCHANGED <<config, other, nav_timeouts, url, normalized_url, html_content,
                   scraping_method, metadata, variations, target, attempt_number,
                   attempts, browser, pw_exc, pw_html, launches, trace>>

\* self._generate_url_variations(normalized_url): the list, or AttributeError
ApplyVariations ==
    /\ pc = "url_variations"
    /\ IF VariationsRaises(normalized_url)
       THEN /\ result' = [kind |-> "raised", exc |-> "AttributeError"]
            /\ UNCHANGED variations
       ELSE /\ result' = [kind |-> "list"]
            /\ variations' = GenerateUrlVariations(normalized_url)
    /\ pc' = "url_done"
    /\ UNCHANGED <<config, other, nav_timeouts, url, normalized_url, html_content,
                   scraping_method, metadata, target, attempt_number, attempts,
                   browser, pw_exc, pw_html, launches, trace>>

NextUrl == ApplyNormalize \/ ApplyNormalizeAgain \/ ApplyVariations

SpecUrl == InitUrl /\ [][NextUrl]_vars

Normalized == pc \in {"url_renormalize", "url_variations", "url_done"}

HasHttpScheme(s) == StartsWith(s, Str_http) \/ StartsWith(s, Str_https)

\* the input with "https://" in front when it has neither scheme
Prefixed(s) == IF HasHttpScheme(s) THEN s ELSE Str_https \o s

\* the number of slashes a string ends in
RECURSIVE TrailingSlashes(_)
TrailingSlashes(s) ==
    IF Len(s) > 0 /\ s[Len(s)] = "/" THEN 1 + TrailingSlashes(SubSeq(s, 1, Len(s) - 1)) ELSE 0

(***************************************************************************)
(* C17: normalize prepends "https://" to every input that lacks a scheme   *)
(* and is idempotent, normalize(normalize(x)) = normalize(x), for every    *)
(* input, the empty string and the strings made of a scheme or of slashes  *)
(* only included.                                                          *)
(***************************************************************************)
C17_NormalizeIdempotent ==
    /\ (Normalized /\ ~HasHttpScheme(url)) => StartsWith(normalized_url, Str_https)
    /\ pc = "url_variations" => result.value = normalized_url

\* the input has a character other than '/' after its scheme prefix
HasRemainder(s) ==
    Len(Prefixed(s)) - TrailingSlashes(Prefixed(s)) > Len(Str_https) - 2

(***************************************************************************)
(* C18: normalize removes exactly one trailing slash: for an input ending  *)
(* in k >= 1 slashes the result ends in k-1 slashes, and an input without  *)
(* trailing slash is unchanged apart from the scheme prefix.  (Stated for  *)
(* the inputs with something other than slashes after the scheme.)         *)
(***************************************************************************)
C18_OneTrailingSlashRemoved ==
    (Normalized /\ HasRemainder(url)) =>
        /\ TrailingSlashes(url) >= 1 =>
              TrailingSlashes(normalized_url) = TrailingSlashes(url) - 1
        /\ TrailingSlashes(url) = 0 => normalized_url = Prefixed(url)

(***************************************************************************)
(* C18 amended: normalize removes every trailing slash: the result ends in *)
(* no slash and is the input, with "https://" in front when it starts with *)
(* neither "http://" nor "https://", without the slashes it ends in.       *)
(***************************************************************************)
C18_AllTrailingSlashesRemoved ==
    Normalized =>
        /\ TrailingSlashes(normalized_url) = 0
        /\ Prefixed(url) = normalized_url \o Slashes(TrailingSlashes(Prefixed(url)))

C18_Witness ==
    /\ Normalized
    /\ TrailingSlashes(url) = 2
    /\ StartsWith(url, Str_www)
    /\ normalized_url = Str_https \o Str_www \o Str_aco

\* the position after the first "://" of a url, 0 when there is none
AfterSep(u) == IF Find(u, Str_sep) = 0 THEN 0 ELSE Find(u, Str_sep) + 3

\* the host written after "://" begins with "www." in whatever case
HasWww(u) ==
    /\ AfterSep(u) > 0
    /\ Len(u) >= AfterSep(u) + 3
    /\ Lower(SubSeq(u, AfterSep(u), AfterSep(u) + 3)) = Str_www

\* the url with the leading "www." of its host removed, or added
WwwToggled(u) ==
    IF HasWww(u)
    THEN SubSeq(u, 1, AfterSep(u) - 1) \o SubSeq(u, AfterSep(u) + 4, Len(u))
    ELSE SubSeq(u, 1, AfterSep(u) - 1) \o Str_www \o SubSeq(u, AfterSep(u), Len(u))

\* the url with its scheme switched between http and https
SchemeSwitched(u) ==
    IF StartsWith(u, Str_https)
    THEN Str_http \o SubSeq(u, Len(Str_https) + 1, Len(u))
    ELSE Str_https \o SubSeq(u, Len(Str_http) + 1, Len(u))

(***************************************************************************)
(* C19: for every url that normalize can return, variations returns,       *)
(* without raising, exactly 2 urls in fixed order: the url with the        *)
(* leading "www." of the host toggled, then the url with the scheme        *)
(* switched between http and https.                                        *)
(***************************************************************************)
C19_TwoVariationsWithoutRaising ==
    pc = "url_done" =>
        /\ result.kind # "raised"
        /\ Len(variations) = 2
        /\ variations[1] = WwwToggled(normalized_url)
        /\ variations[2] = SchemeSwitched(normalized_url)

(***************************************************************************)
(* C20: for every normalized url, no entry of variations(url) is equal to  *)
(* url itself, the urls whose host is written in upper or mixed case       *)
(* included.                                                               *)
(***************************************************************************)
C20_NoVariationEqualsUrl ==
    (pc = "url_done" /\ result.kind = "list") =>
        \A i \in DOMAIN variations : variations[i] # normalized_url

(***************************************************************************)
(* The extractor (smart_scraper.py 283-583).  BeautifulSoup(html) is given *)
(* as its parse tree: a sequence of elements in document order, each with  *)
(* its tag, its attributes, its own text and its child elements.  Tag,     *)
(* type and role are compared as a whole; class, id, href and text are     *)
(* character sequences, so that the substring selectors, strip() and       *)
(* lower() are computed as the code computes them.                         *)
(***************************************************************************)
Element(tag, cls, text, children) ==
    [tag |-> tag, type |-> "", cls |-> cls, id |-> <<>>, role |-> "", href |-> <<>>,
     text |-> text, children |-> children]

\* <a href=...>text</a>
Anchor(href, text) ==
    [tag |-> "a", type |-> "", cls |-> <<>>, id |-> <<>>, role |-> "", href |-> <<href>>,
     text |-> text, children |-> <<>>]

\* <script type=...>content</script>; the content is script.string
Script(type, content) ==
    [tag |-> "script", type |-> type, cls |-> <<>>, id |-> <<>>, role |-> "", href |-> <<>>,
     text |-> content, children |-> <<>>]

\* sub in s
Contains(s, sub) == Find(s, sub) # 0

\* str.strip() for the whitespace of the model, the blank
RECURSIVE LStrip(_)
LStrip(s) == IF Len(s) > 0 /\ s[1] = " " THEN LStrip(Tail(s)) ELSE s

RECURSIVE RStrip(_)
RStrip(s) == IF Len(s) > 0 /\ s[Len(s)] = " " THEN RStrip(SubSeq(s, 1, Len(s) - 1)) ELSE s

Strip(s) == LStrip(RStrip(s))

\* the elements of a tree in document order, each with the tags of its ancestors
RECURSIVE Flatten(_, _)
Flatten(elements, ancestors) ==
    IF elements = <<>> THEN <<>>
    ELSE <<[el |-> Head(elements), ancestors |-> ancestors]>>
         \o Flatten(Head(elements).children, ancestors \cup {Head(elements).tag})
         \o Flatten(Tail(elements), ancestors)

\* element.get_text(): the text of the element and of its descendants
RECURSIVE GetTextOf(_)
GetTextOf(elements) ==
    IF elements = <<>> THEN <<>>
    ELSE Head(elements).text \o GetTextOf(Head(elements).children) \o GetTextOf(Tail(elements))

GetText(e) == e.text \o GetTextOf(e.children)

\* line 291: soup([...]) is find_all with a list of tag names, so the entries
\* '.cookie-banner' and '.popup' name no tag
UnwantedTags == {"script", "style", "nav", "footer", "header"}

\* lines 291-292: every element with an unwanted tag is removed with its subtree
RECURSIVE Decompose(_)
Decompose(elements) ==
    IF elements = <<>> THEN <<>>
    ELSE LET e == Head(elements)
         IN  (IF e.tag \in UnwantedTags THEN <<>>
              ELSE <<[e EXCEPT !.children = Decompose(e.children)]>>)
             \o Decompose(Tail(elements))

(***************************************************************************)
(* CSS selectors of select_one, as far as the code uses them.              *)
(***************************************************************************)
SelClass(sub) == [kind |-> "class*", v |-> sub]
SelId(sub) == [kind |-> "id*", v |-> sub]
SelTag(tag) == [kind |-> "tag", v |-> tag]
SelRole(role) == [kind |-> "role", v |-> role]
SelDescendant(anc, tag) == [kind |-> "descendant", anc |-> anc, v |-> tag]
SelTagContains(tag, sub) == [kind |-> "contains", tag |-> tag, v |-> sub]

Matches(n, sel) ==
    CASE sel.kind = "class*" -> Contains(n.el.cls, sel.v)
      [] sel.kind = "id*" -> Contains(n.el.id, sel.v)
      [] sel.kind = "tag" -> n.el.tag = sel.v
      [] sel.kind = "role" -> n.el.role = sel.v
      [] sel.kind = "descendant" -> n.el.tag = sel.v /\ sel.anc \in n.ancestors
      [] sel.kind = "contains" -> n.el.tag = sel.tag /\ Contains(GetText(n.el), sel.v)

\* the elements of the tree that match, in document order
Select(soup, sel) ==
    LET flat == Flatten(soup, {})
        hit(n) == Matches(n, sel)
    IN  SelectSeq(flat, hit)

\* soup.select_one(selector): the first match in document order, or None
SelectOne(soup, sel) ==
    IF Select(soup, sel) = <<>> THEN None ELSE Head(Select(soup, sel)).el

(***************************************************************************)
(* _extract_json_ld (lines 370-383).  json.loads is computed for the JSON  *)
(* texts over the characters { } [ ] , 1: a text is 1, {} or a list of     *)
(* texts; the parsed value of a valid text is written Parsed(text).        *)
(***************************************************************************)
RECURSIVE IsJsonValue(_)
RECURSIVE IsJsonItems(_)
IsJsonValue(s) ==
    \/ s = <<"1">>
    \/ s = <<"{", "}">>
    \/ /\ Len(s) >= 2
       /\ s[1] = "[" /\ s[Len(s)] = "]"
       /\ (Len(s) = 2 \/ IsJsonItems(SubSeq(s, 2, Len(s) - 1)))

IsJsonItems(s) ==
    \/ IsJsonValue(s)
    \/ \E k \in 2..(Len(s) - 1) :
          /\ s[k] = ","
          /\ IsJsonValue(SubSeq(s, 1, k - 1))
          /\ IsJsonItems(SubSeq(s, k + 1, Len(s)))

Parsed(text) == [kind |-> "json", text |-> text]

\* script.string: None (written <<>>) for a script without content, else <<content>>
ScriptString(script) == IF script.text = <<>> THEN <<>> ELSE <<script.text>>

\* json.loads(script.string): TypeError for None, JSONDecodeError for bad syntax
JsonLoads(s) ==
    IF s = <<>> THEN [ok |-> FALSE, exc |-> "TypeError"]
    ELSE IF IsJsonValue(s[1]) THEN [ok |-> TRUE, value |-> Parsed(s[1])]
    ELSE [ok |-> FALSE, exc |-> "JSONDecodeError"]

RECURSIVE LoadAll(_)
LoadAll(nodes) ==
    IF nodes = <<>> THEN <<>>
    ELSE (IF JsonLoads(ScriptString(Head(nodes).el)).ok
          THEN <<JsonLoads(ScriptString(Head(nodes).el)).value>> ELSE <<>>)
         \o LoadAll(Tail(nodes))

IsJsonLdScript(n) == n.el.tag = "script" /\ n.el.type = "application/ld+json"

ExtractJsonLd(soup) == LoadAll(SelectSeq(Flatten(soup, {}), IsJsonLdScript))

(***************************************************************************)
(* _extract_content_sections (lines 385-449).                              *)
(***************************************************************************)
HeroSectionSelectors ==
    <<SelClass(<<"h", "e", "r", "o">>),
     SelClass(<<"b", "a", "n", "n", "e", "r">>),
     SelClass(<<"j", "u", "m", "b", "o", "t", "r", "o", "n">>),
     SelTag("main"),
     SelRole("main")>>

AboutSectionSelectors ==
    <<SelClass(<<"a", "b", "o", "u", "t">>),
     SelId(<<"a", "b", "o", "u", "t">>),
     SelTagContains("section", <<"A", "b", "o", "u", "t">>),
     SelClass(<<"c", "o", "m", "p", "a", "n", "y">>)>>

ProductsServicesSelectors ==
    <<SelClass(<<"p", "r", "o", "d", "u", "c", "t">>),
     SelClass(<<"s", "e", "r", "v", "i", "c", "e">>),
     SelClass(<<"s", "o", "l", "u", "t", "i", "o", "n">>),
     SelClass(<<"f", "e", "a", "t", "u", "r", "e">>)>>

PricingSectionSelectors ==
    <<SelClass(<<"p", "r", "i", "c", "i", "n", "g">>),
     SelClass(<<"p", "r", "i", "c", "e">>),
     SelClass(<<"p", "l", "a", "n">>),
     SelId(<<"p", "r", "i", "c", "i", "n", "g">>)>>

TeamSectionSelectors ==
    <<SelClass(<<"t", "e", "a", "m">>),
     SelClass(<<"a", "b", "o", "u", "t">>),
     SelClass(<<"l", "e", "a", "d", "e", "r", "s", "h", "i", "p">>),
     SelClass(<<"f", "o", "u", "n", "d", "e", "r">>)>>

ContactSectionSelectors ==
    <<SelClass(<<"c", "o", "n", "t", "a", "c", "t">>),
     SelId(<<"c", "o", "n", "t", "a", "c", "t">>),
     SelTag("footer"),
     SelClass(<<"f", "o", "o", "t", "e", "r">>)>>

SectionLabels ==
    <<"hero_section", "about_section", "products_services", "pricing_section",
      "team_section", "contact_section">>

SelectorsOf(label) ==
    CASE label = "hero_section" -> HeroSectionSelectors
      [] label = "about_section" -> AboutSectionSelectors
      [] label = "products_services" -> ProductsServicesSelectors
      [] label = "pricing_section" -> PricingSectionSelectors
      [] label = "team_section" -> TeamSectionSelectors
      [] label = "contact_section" -> ContactSectionSelectors

\* line 428: the team loop also requires 'team' in element.get_text().lower()
Accepts(label, e) ==
    label = "team_section" => Contains(Lower(GetText(e)), <<"t", "e", "a", "m">>)

\* the for loops of lines 391-438: the first selector whose select_one finds
\* an element ends the loop, whatever the element's text
RECURSIVE ProbeSelectors(_, _, _)
ProbeSelectors(soup, label, selectors) ==
    IF selectors = <<>> THEN None
    ELSE LET e == SelectOne(soup, Head(selectors))
         IN  IF e # None /\ Accepts(label, e)
             THEN [kind |-> "text", v |-> Strip(GetText(e))]
             ELSE ProbeSelectors(soup, label, Tail(selectors))

MinSectionLength == 20
MaxSectionLength == 2000
Str_truncated == <<".", ".", ".", " ", "[", "t", "r", "u", "n", "c", "a", "t", "e", "d", "]">>

\* mutant: content of exactly 20 characters is kept
Substantial_AtLeast(content) == Len(content) > 0 /\ Len(Strip(content)) >= MinSectionLength

\* line 443: content and len(content.strip()) > 20
Substantial(content) == Len(content) > 0 /\ Len(Strip(content)) > MinSectionLength

\* lines 445-446
Limited(content) ==
    IF Len(content) > MaxSectionLength
    THEN SubSeq(content, 1, MaxSectionLength) \o Str_truncated ELSE content

\* the dictionary cleaned_sections: a function on the labels that are kept
ExtractContentSections(soup) ==
    LET found(l) == ProbeSelectors(soup, l, SelectorsOf(l))
        kept == {l \in {SectionLabels[i] : i \in DOMAIN SectionLabels} :
                    found(l) # None /\ Substantial(found(l).v)}
    IN  [l \in kept |-> Limited(found(l).v)]

(***************************************************************************)
(* _detect_technologies (lines 451-528).                                   *)
(***************************************************************************)
\* the tests of lines 457-526 other than Salesforce: name, substrings
Signatures ==
    <<[name |-> "HubSpot", any |-> {<<"h", "u", "b", "s", "p", "o", "t">>, <<"h", "s", "-", "s", "c", "r", "i", "p", "t", "s", ".", "c", "o", "m">>, <<"h", "s", "f", "o", "r", "m", "s">>}],
      [name |-> "Pipedrive", any |-> {<<"p", "i", "p", "e", "d", "r", "i", "v", "e">>, <<"p", "i", "p", "e", "d", "r", "i", "v", "e", ".", "c", "o", "m">>}],
      [name |-> "Google Analytics", any |-> {<<"g", "o", "o", "g", "l", "e", "-", "a", "n", "a", "l", "y", "t", "i", "c", "s">>, <<"g", "t", "a", "g", "(">>, <<"g", "a", "(">>}],
      [name |-> "Mixpanel", any |-> {<<"m", "i", "x", "p", "a", "n", "e", "l">>}],
      [name |-> "Segment", any |-> {<<"s", "e", "g", "m", "e", "n", "t", ".", "c", "o", "m">>, <<"c", "d", "n", ".", "s", "e", "g", "m", "e", "n", "t", ".", "c", "o", "m">>, <<"a", "n", "a", "l", "y", "t", "i", "c", "s", ".", "l", "o", "a", "d", "(">>}],
      [name |-> "Mailchimp", any |-> {<<"m", "a", "i", "l", "c", "h", "i", "m", "p">>}],
      [name |-> "Marketo", any |-> {<<"m", "a", "r", "k", "e", "t", "o">>}],
      [name |-> "Pardot", any |-> {<<"p", "a", "r", "d", "o", "t">>}],
      [name |-> "Intercom", any |-> {<<"i", "n", "t", "e", "r", "c", "o", "m">>}],
      [name |-> "Zendesk", any |-> {<<"z", "e", "n", "d", "e", "s", "k">>}],
      [name |-> "Drift", any |-> {<<"d", "r", "i", "f", "t">>}],
      [name |-> "Calendly", any |-> {<<"c", "a", "l", "e", "n", "d", "l", "y">>}],
      [name |-> "Acuity Scheduling", any |-> {<<"a", "c", "u", "i", "t", "y">>}],
      [name |-> "Chili Piper", any |-> {<<"c", "h", "i", "l", "i", " ", "p", "i", "p", "e", "r">>}],
      [name |-> "PandaDoc", any |-> {<<"p", "a", "n", "d", "a", "d", "o", "c">>}],
      [name |-> "DocuSign", any |-> {<<"d", "o", "c", "u", "s", "i", "g", "n">>}],
      [name |-> "HelloSign", any |-> {<<"h", "e", "l", "l", "o", "s", "i", "g", "n">>}],
      [name |-> "Zapier", any |-> {<<"z", "a", "p", "i", "e", "r">>}],
      [name |-> "Integromat", any |-> {<<"i", "n", "t", "e", "g", "r", "o", "m", "a", "t">>}],
      [name |-> "WordPress", any |-> {<<"w", "o", "r", "d", "p", "r", "e", "s", "s">>}],
      [name |-> "Shopify", any |-> {<<"s", "h", "o", "p", "i", "f", "y", ".", "c", "o", "m">>, <<"c", "d", "n", ".", "s", "h", "o", "p", "i", "f", "y", ".", "c", "o", "m">>}],
      [name |-> "Webflow", any |-> {<<"w", "e", "b", "f", "l", "o", "w">>}],
      [name |-> "React", any |-> {<<"r", "e", "a", "c", "t">>}],
      [name |-> "Vue.js", any |-> {<<"v", "u", "e">>}],
      [name |-> "Angular", any |-> {<<"a", "n", "g", "u", "l", "a", "r">>}]>>

\* mutant: the word salesforce alone is a signal
SalesforceSignal_BareWord(html_lower) ==
    \/ Contains(html_lower, <<"s", "a", "l", "e", "s", "f", "o", "r", "c", "e", ".", "c", "o", "m">>)
    \/ Contains(html_lower, <<"f", "o", "r", "c", "e", ".", "c", "o", "m">>)
    \/ Contains(html_lower, <<"s", "f", "m", "c">>)
    \/ Contains(html_lower, <<"s", "a", "l", "e", "s", "f", "o", "r", "c", "e">>)
    \/ Contains(html_lower, <<"d", "a", "t", "a", "-", "s", "f">>)

\* lines 460-463: a or b or c or (d and e)
SalesforceSignal(html_lower) ==
    \/ Contains(html_lower, <<"s", "a", "l", "e", "s", "f", "o", "r", "c", "e", ".", "c", "o", "m">>)
    \/ Contains(html_lower, <<"f", "o", "r", "c", "e", ".", "c", "o", "m">>)
    \/ Contains(html_lower, <<"s", "f", "m", "c">>)
    \/ (Contains(html_lower, <<"s", "a", "l", "e", "s", "f", "o", "r", "c", "e">>) /\ Contains(html_lower, <<"d", "a", "t", "a", "-", "s", "f">>))

\* the list technologies before line 528, in the order of the appends
RECURSIVE Appended(_, _)
Appended(html_lower, i) ==
    IF i > Len(Signatures) THEN <<>>
    ELSE (IF \E p \in Signatures[i].any : Contains(html_lower, p)
          THEN <<Signatures[i].name>> ELSE <<>>)
         \o (IF i = 1 /\ SalesforceSignal(html_lower) THEN <<"Salesforce">> ELSE <<>>)
         \o Appended(html_lower, i + 1)

\* set(technologies)
DetectTechnologies(html) ==
    LET technologies == Appended(Lower(html), 1)
    IN  {technologies[i] : i \in DOMAIN technologies}

\* list(set(...)): the lists that enumerate a set once, in some order
Enumerations(S) ==
    {q \in [1..Cardinality(S) -> S] : \A i, j \in DOMAIN q : q[i] = q[j] => i = j}

(***************************************************************************)
(* _extract_contact_information (lines 530-563).  The documents of the     *)
(* model have no '@' and no run of ten digits in their text, so the email  *)
(* and phone patterns find nothing and only social_media can be present.   *)
(***************************************************************************)
\* the elif chain of lines 551-558 on href.lower(); "" when none applies
PlatformOf(href) ==
    LET h == Lower(href)
    IN  IF Contains(h, <<"l", "i", "n", "k", "e", "d", "i", "n", ".", "c", "o", "m">>) THEN "linkedin"
        ELSE IF Contains(h, <<"t", "w", "i", "t", "t", "e", "r", ".", "c", "o", "m">>) THEN "twitter"
        ELSE IF Contains(h, <<"f", "a", "c", "e", "b", "o", "o", "k", ".", "c", "o", "m">>) THEN "facebook"
        ELSE IF Contains(h, <<"i", "n", "s", "t", "a", "g", "r", "a", "m", ".", "c", "o", "m">>) THEN "instagram"
        ELSE ""

HasHref(n) == n.el.tag = "a" /\ n.el.href # <<>>

\* mutant: a platform that already has a link keeps it
RECURSIVE SocialLinks_FirstWins(_, _)
SocialLinks_FirstWins(anchors, links) ==
    IF anchors = <<>> THEN links
    ELSE LET href == Head(anchors).el.href[1]
             p == PlatformOf(href)
         IN  IF p = "" \/ p \in DOMAIN links
             THEN SocialLinks_FirstWins(Tail(anchors), links)
             ELSE SocialLinks_FirstWins(Tail(anchors),
                      [q \in DOMAIN links \cup {p} |-> IF q = p THEN href ELSE links[q]])

\* the loop of lines 549-558: social_links[platform] = link['href']
RECURSIVE SocialLinks(_, _)
SocialLinks(anchors, links) ==
    IF anchors = <<>> THEN links
    ELSE LET href == Head(anchors).el.href[1]
             p == PlatformOf(href)
         IN  IF p = ""
             THEN SocialLinks(Tail(anchors), links)
             ELSE SocialLinks(Tail(anchors),
                      [q \in DOMAIN links \cup {p} |-> IF q = p THEN href ELSE links[q]])

ExtractContactInformation(soup) ==
    LET social_links == SocialLinks(SelectSeq(Flatten(soup, {}), HasHref), <<>>)
    IN  IF DOMAIN social_links # {} THEN [social_media |-> social_links] ELSE <<>>

(***************************************************************************)
(* _extract_navigation_structure (lines 565-583).                          *)
(***************************************************************************)
NavSelectors ==
    <<SelTag("nav"), SelClass(<<"n", "a", "v">>), SelClass(<<"m", "e", "n", "u">>),
      SelDescendant("header", "ul"), SelRole("navigation")>>

MaxNavItemLength == 50

IsAnchor(n) == n.el.tag = "a"

\* lines 576-580: the stripped texts of the links inside the element
NavItems(nav_element) ==
    LET links == SelectSeq(Flatten(nav_element.children, {}), IsAnchor)
        texts == {Strip(GetText(links[i].el)) : i \in DOMAIN links}
    IN  {x \in texts : Len(x) > 0 /\ Len(x) < MaxNavItemLength}

\* lines 572-583: the first selector that finds an element ends the loop
RECURSIVE NavigationOf(_, _)
NavigationOf(soup, selectors) ==
    IF selectors = <<>> THEN {}
    ELSE IF SelectOne(soup, Head(selectors)) # None
         THEN NavItems(SelectOne(soup, Head(selectors)))
         ELSE NavigationOf(soup, Tail(selectors))

\* set(nav_items)
ExtractNavigationStructure(soup) == NavigationOf(soup, NavSelectors)

(***************************************************************************)
(* _extract_clean_text (lines 309-330) and _extract_meta_tags (332-368).   *)
(* The whitespace of the model is the blank: the text is one line, its     *)
(* phrases are what two blanks separate, and the phrases that are not      *)
(* empty are joined by one blank.  The documents of the model have no      *)
(* <meta> element, so only the title can be present.                       *)
(***************************************************************************)
\* line.split("  "): the phrases between occurrences of two blanks
RECURSIVE SplitDouble(_)
SplitDouble(s) ==
    IF Find(s, <<" ", " ">>) = 0 THEN <<s>>
    ELSE <<SubSeq(s, 1, Find(s, <<" ", " ">>) - 1)>>
         \o SplitDouble(SubSeq(s, Find(s, <<" ", " ">>) + 2, Len(s)))

\* ' '.join(chunk for chunk in chunks if chunk)
RECURSIVE JoinChunks(_)
JoinChunks(phrases) ==
    IF phrases = <<>> THEN <<>>
    ELSE LET c == Strip(Head(phrases))
             rest == JoinChunks(Tail(phrases))
         IN  IF c = <<>> THEN rest
             ELSE IF rest = <<>> THEN c ELSE c \o <<" ">> \o rest

MaxTextLength == 50000

ExtractCleanText(soup) ==
    LET clean_text == JoinChunks(SplitDouble(Strip(GetTextOf(soup))))
    IN  IF Len(clean_text) > MaxTextLength
        THEN SubSeq(clean_text, 1, MaxTextLength) \o Str_truncated ELSE clean_text

ExtractMetaTags(soup) ==
    IF SelectOne(soup, SelTag("title")) # None
    THEN [title |-> Strip(GetText(SelectOne(soup, SelTag("title"))))]
    ELSE <<>>

(***************************************************************************)
(* _extract_structured_data (lines 283-307) on a parse tree: the unwanted  *)
(* elements are removed first, every field but technology_stack is then    *)
(* read from what is left.  structured_data is a list, content_sections    *)
(* and social_media are dictionaries, navigation_structure is the set the  *)
(* returned list enumerates.                                               *)
(***************************************************************************)
ExtractFromSoup(tree) ==
    LET soup == Decompose(tree)
    IN  [html_text |-> ExtractCleanText(soup),
         meta_data |-> ExtractMetaTags(soup),
         structured_data |-> ExtractJsonLd(soup),
         content_sections |-> ExtractContentSections(soup),
         contact_info |-> ExtractContactInformation(soup),
         navigation_structure |-> ExtractNavigationStructure(soup)]

(***************************************************************************)
(* The extractor applied on its own.  The parse trees are sequences of at  *)
(* most MaxElements top-level elements taken from one of four families     *)
(* (JSON-LD scripts, content sections, social links, navigation            *)
(* containers); the markup strings given to _detect_technologies are at    *)
(* most MaxFragments fragments written one after the other.                *)
(***************************************************************************)
MaxElements == 2
MaxFragments == 2

SeqsUpTo(S, n) == UNION {[1..k -> S] : k \in 0..n}

\* a text of n characters
X(n) == [i \in 1..n |-> "x"]

Str_home == <<"H", "o", "m", "e">>

JsonLdElements ==
    { Script("application/ld+json", <<"{", "}">>),
      Script("application/ld+json", <<"[", "1", "]">>),
      Script("application/ld+json", <<"{">>),
      Script("application/ld+json", <<>>),
      Script("text/javascript", <<"1">>),
      Element("div", <<>>, X(3), <<>>) }

SectionElements ==
    { Element("div", <<"h", "e", "r", "o">>, X(15), <<>>),
      Element("div", <<"h", "e", "r", "o">>, X(20), <<>>),
      Element("div", <<"h", "e", "r", "o">>, X(21), <<>>),
      Element("div", <<"h", "e", "r", "o">>, <<" ">> \o X(25) \o <<" ">>, <<>>),
      Element("div", <<"b", "a", "n", "n", "e", "r">>, X(15), <<>>),
      Element("div", <<"b", "a", "n", "n", "e", "r">>, X(25), <<>>),
      Element("main", <<>>, X(25), <<>>),
      Element("div", <<"p", "r", "o", "d", "u", "c", "t">>, X(MaxSectionLength + 1), <<>>),
      Element("div", <<"a", "b", "o", "u", "t">>, <<"t", "e", "a", "m">> \o X(20), <<>>) }

SocialElements ==
    { Anchor(<<"h", "t", "t", "p", "s", ":", "/", "/", "l", "i", "n", "k", "e", "d", "i", "n", ".", "c", "o", "m", "/", "a">>, Str_home),
      Anchor(<<"h", "t", "t", "p", "s", ":", "/", "/", "w", "w", "w", ".", "L", "i", "n", "k", "e", "d", "I", "n", ".", "c", "o", "m", "/", "b">>, Str_home),
      Anchor(<<"h", "t", "t", "p", "s", ":", "/", "/", "t", "w", "i", "t", "t", "e", "r", ".", "c", "o", "m", "/", "a">>, Str_home),
      Anchor(Str_aco, Str_home),
      Anchor(<<"h", "t", "t", "p", "s", ":", "/", "/", "t", "w", "i", "t", "t", "e", "r", ".", "c", "o", "m", "/", "l", "i", "n", "k", "e", "d", "i", "n", ".", "c", "o", "m">>, Str_home),
      Element("footer", <<>>, <<>>, <<Anchor(<<"h", "t", "t", "p", "s", ":", "/", "/", "l", "i", "n", "k", "e", "d", "i", "n", ".", "c", "o", "m", "/", "c">>, Str_home)>>),
      Element("div", <<>>, <<>>, <<Anchor(<<"h", "t", "t", "p", "s", ":", "/", "/", "t", "w", "i", "t", "t", "e", "r", ".", "c", "o", "m", "/", "b">>, Str_home)>>) }

NavElements ==
    { Element("nav", <<>>, <<>>, <<Anchor(Str_aco, Str_home), Anchor(Str_aco, <<"a", "b", "o", "u", "t">>)>>),
      Element("div", <<"n", "a", "v", "b", "a", "r">>, <<>>, <<Anchor(Str_aco, Str_home), Anchor(Str_aco, Str_home)>>),
      Element("div", <<"m", "e", "n", "u">>, <<>>, <<Anchor(Str_aco, X(50)), Anchor(Str_aco, <<" ">>)>>),
      Element("header", <<>>, <<>>,
              <<Element("ul", <<>>, <<>>, <<Anchor(Str_aco, <<"t", "e", "a", "m">>)>>)>>),
      [Element("div", <<>>, <<>>, <<Anchor(Str_aco, <<"h", "e", "r", "o">>)>>) EXCEPT !.role = "navigation"],
      Element("div", <<>>, <<>>, <<Anchor(Str_aco, Str_home)>>) }

Trees ==
    SeqsUpTo(JsonLdElements, MaxElements) \cup SeqsUpTo(SectionElements, MaxElements)
      \cup SeqsUpTo(SocialElements, MaxElements) \cup SeqsUpTo(NavElements, MaxElements)

Fragments ==
    { <<"j", "s", ".", "h", "s", "-", "s", "c", "r", "i", "p", "t", "s", ".", "c", "o", "m">>, <<"H", "u", "b", "S", "p", "o", "t">>, <<"S", "a", "l", "e", "s", "f", "o", "r", "c", "e">>, <<"s", "a", "l", "e", "s", "f", "o", "r", "c", "e">>,
      <<".", "c", "o", "m">>, <<"f", "o", "r", "c", "e", ".", "c", "o", "m">>, <<"s", "f", "m", "c">>, <<"d", "a", "t", "a", "-", "s", "f">>, <<"x">> }

RECURSIVE Concat(_)
Concat(parts) == IF parts = <<>> THEN <<>> ELSE Head(parts) \o Concat(Tail(parts))

Sources == {Concat(parts) : parts \in SeqsUpTo(Fragments, MaxFragments)}

Tree(elements) == [kind |-> "tree", elements |-> elements]
Source(chars) == [kind |-> "source", chars |-> chars]

InitExtract ==
    /\ pc = "extract"
    /\ html_content \in {Tree(e) : e \in Trees} \cup {Source(c) : c \in Sources}
    /\ url = Str_aco
    /\ normalized_url = Str_https \o Str_aco
    /\ scraping_method = "None"
    /\ metadata = InitialMetadata
    /\ variations = <<>>
    /\ target = 0
    /\ attempt_number = 0
    /\ attempts = <<>>
    /\ browser = "none"
    /\ pw_exc = "none"
    /\ pw_html = None
    /\ launches = 0
    /\ result = [kind |-> "none"]
    /\ trace = <<>>
    /\ nav_timeouts = <<>>
    /\ config = [timeout |-> 30, max_retries |-> 3, retry_delay |-> 2]
    /\ other = NoCall

\* self._extract_structured_data(html, url) for the markup with this parse tree
ApplyExtract ==
    /\ pc = "extract"
    /\ html_content.kind = "tree"
    /\ result' = [kind |-> "extracted", doc |-> ExtractFromSoup(html_content.elements)]
    /\ pc' = "extracted"
    /\ UNCHANGED <<config, other, nav_timeouts, url, normalized_url, html_content,
                   scraping_method, metadata, variations, target, attempt_number,
                   attempts, browser, pw_exc, pw_html, launches, trace>>

\* self._detect_technologies(html): list(set(technologies)) in some order
ApplyDetectTechnologies ==
    /\ pc = "extract"
    /\ html_content.kind = "source"
    /\ \E q \in Enumerations(DetectTechnologies(html_content.chars)) :
          result' = [kind |-> "technologies", list |-> q]
    /\ pc' = "extracted"
    /\ UNCHANGED <<config, other, nav_timeouts, url, normalized_url, html_content,
                   scraping_method, metadata, variations, target, attempt_number,
                   attempts, browser, pw_exc, pw_html, launches, trace>>

NextExtract == ApplyExtract \/ ApplyDetectTechnologies

SpecExtract == InitExtract /\ [][NextExtract]_vars

Extracted == pc = "extracted" /\ result.kind = "extracted"

(***************************************************************************)
(* Claims about the extractor, checked under SpecExtract.                  *)
(***************************************************************************)
\* the JSON-LD blocks of the markup as written, in document order
JsonLdBlocks == SelectSeq(Flatten(html_content.elements, {}), IsJsonLdScript)

\* a block whose content is valid JSON
ValidBlock(n) == n.el.text # <<>> /\ IsJsonValue(n.el.text)

RECURSIVE ParsedObjects(_)
ParsedObjects(nodes) ==
    IF nodes = <<>> THEN <<>>
    ELSE <<Parsed(Head(nodes).el.text)>> \o ParsedObjects(Tail(nodes))

\* C21: the structured data of an extraction are exactly the parsed objects of
\* the JSON-LD blocks of the markup whose content is valid JSON, in document
\* order; blocks with invalid syntax are skipped.
C21_ValidJsonLdBlocksReturned ==
    Extracted =>
        result.doc.structured_data = ParsedObjects(SelectSeq(JsonLdBlocks, ValidBlock))

\* the soup the extractors are given
Soup == Decompose(html_content.elements)

\* the selectors of a label, by position, whose select_one finds an element
\* the loop of the label accepts
MatchingSelectors(l) ==
    {i \in DOMAIN SelectorsOf(l) :
        LET e == SelectOne(Soup, SelectorsOf(l)[i])
        IN  e # None /\ Accepts(l, e)}

Least(S) == CHOOSE i \in S : \A j \in S : i <= j

\* the stripped text of the element the i-th selector of the label finds
TextAt(l, i) == Strip(GetText(SelectOne(Soup, SelectorsOf(l)[i])))

\* the text matched for a label: that of its first matching selector
MatchedText(l) == TextAt(l, Least(MatchingSelectors(l)))

Labels == {SectionLabels[i] : i \in DOMAIN SectionLabels}

Sections == result.doc.content_sections

\* C22 as stated: a label is present exactly when the text matched for it has
\* at least 20 characters, and is then that text.
C22_PresentIffAtLeastTwenty ==
    Extracted =>
        \A l \in Labels :
            /\ l \in DOMAIN Sections
                 <=> (MatchingSelectors(l) # {} /\ Len(MatchedText(l)) >= 20)
            /\ (l \in DOMAIN Sections /\ Len(MatchedText(l)) <= 25)
                 => Sections[l] = MatchedText(l)

\* C22: a label is present exactly when the text matched for it has more than
\* 20 characters; its value is that text when it has at most 2000 characters,
\* and otherwise its first 2000 characters followed by "... [truncated]".
C22_PresentIffMoreThanTwenty ==
    Extracted =>
        \A l \in Labels :
            /\ l \in DOMAIN Sections
                 <=> (MatchingSelectors(l) # {} /\ Len(MatchedText(l)) > 20)
            /\ l \in DOMAIN Sections =>
                  Sections[l] = IF Len(MatchedText(l)) <= 2000
                                THEN MatchedText(l)
                                ELSE SubSeq(MatchedText(l), 1, 2000) \o Str_truncated

\* a hero text of exactly 20 characters was matched and the label is omitted
C22_Witness ==
    /\ Extracted
    /\ MatchingSelectors("hero_section") # {}
    /\ Len(MatchedText("hero_section")) = 20
    /\ "hero_section" \notin DOMAIN Sections

\* the selectors of a label that find an element with at least 20 characters
SufficientSelectors(l) == {i \in MatchingSelectors(l) : Len(TextAt(l, i)) >= 20}

\* C23: the value of a label is the text of the first selector, in priority
\* order, whose match has at least 20 characters: a higher-priority selector
\* matching too little text does not keep a lower-priority selector with
\* sufficient text from supplying the section.
C23_FirstSufficientSelectorSupplies ==
    Extracted =>
        \A l \in Labels :
            SufficientSelectors(l) # {} =>
                /\ l \in DOMAIN Sections
                /\ Len(TextAt(l, Least(SufficientSelectors(l)))) <= 25
                     => Sections[l] = TextAt(l, Least(SufficientSelectors(l)))

Platforms == {"linkedin", "twitter", "facebook", "instagram"}

\* the hrefs, in document order, of the anchors of the soup counted for a platform
HrefsOf(p) ==
    LET counted(n) == HasHref(n) /\ PlatformOf(n.el.href[1]) = p
        anchors == SelectSeq(Flatten(Soup, {}), counted)
    IN  [i \in DOMAIN anchors |-> anchors[i].el.href[1]]

Contact == result.doc.contact_info

\* the link recorded for a platform, <<>> when there is none
SocialMedia(p) ==
    IF "social_media" \in DOMAIN Contact /\ p \in DOMAIN Contact.social_media
    THEN <<Contact.social_media[p]>> ELSE <<>>

\* C24 as stated: each platform is mapped to the first anchor, in document
\* order, whose href contains the platform's domain.
C24_FirstAnchorKept ==
    Extracted =>
        \A p \in Platforms :
            SocialMedia(p) = IF HrefsOf(p) = <<>> THEN <<>> ELSE <<Head(HrefsOf(p))>>

\* C24: each platform is mapped to the href of the last anchor, in document
\* order, counted for it; a platform without such an anchor has no entry, and
\* without any entry social_media itself is absent.
C24_LastAnchorKept ==
    Extracted =>
        /\ \A p \in Platforms :
              SocialMedia(p) = IF HrefsOf(p) = <<>> THEN <<>>
                               ELSE <<HrefsOf(p)[Len(HrefsOf(p))]>>
        /\ (\A p \in Platforms : HrefsOf(p) = <<>>) => "social_media" \notin DOMAIN Contact

\* two different linkedin anchors were seen and the second is the one recorded
C24_Witness ==
    /\ Extracted
    /\ Len(HrefsOf("linkedin")) = 2
    /\ HrefsOf("linkedin")[1] # HrefsOf("linkedin")[2]
    /\ SocialMedia("linkedin") = <<HrefsOf("linkedin")[2]>>

\* the navigation selectors that match an element of the markup as supplied
NavContainers ==
    {i \in DOMAIN NavSelectors : SelectOne(html_content.elements, NavSelectors[i]) # None}

\* C25: the navigation labels are the anchor texts shorter than 50 characters
\* inside the first element of the supplied markup that matches the
\* prioritized navigation selectors, and are empty only if no element matches;
\* a <nav> element with links yields those link texts.
C25_LabelsOfFirstNavContainer ==
    Extracted =>
        /\ result.doc.navigation_structure
             = IF NavContainers = {} THEN {}
               ELSE NavItems(SelectOne(html_content.elements,
                                       NavSelectors[Least(NavContainers)]))
        /\ result.doc.navigation_structure = {} => NavContainers = {}

\* the markup given to _detect_technologies and the list it returned
Detected == pc = "extracted" /\ result.kind = "technologies"

Names == {result.list[i] : i \in DOMAIN result.list}

\* the markup contains the text, whatever the letter case
Mentions(text) == Contains(Lower(html_content.chars), text)

BareSalesforce ==
    /\ Mentions(<<"s", "a", "l", "e", "s", "f", "o", "r", "c", "e">>)
    /\ ~Mentions(<<"s", "a", "l", "e", "s", "f", "o", "r", "c", "e", ".", "c", "o", "m">>) /\ ~Mentions(<<"f", "o", "r", "c", "e", ".", "c", "o", "m">>)
    /\ ~Mentions(<<"s", "f", "m", "c">>) /\ ~Mentions(<<"d", "a", "t", "a", "-", "s", "f">>)

\* C26: the technology list contains "HubSpot" whenever the markup contains
\* "hs-scripts.com", does not contain "Salesforce" when the markup has the word
\* "salesforce" in some letter case but none of the signals salesforce.com,
\* force.com, sfmc and data-sf, and contains no name twice.
C26_HubSpotFoundBareSalesforceSuppressed ==
    Detected =>
        /\ Contains(html_content.chars, <<"h", "s", "-", "s", "c", "r", "i", "p", "t", "s", ".", "c", "o", "m">>) => "HubSpot" \in Names
        /\ BareSalesforce => "Salesforce" \notin Names
        /\ \A i, j \in DOMAIN result.list : result.list[i] = result.list[j] => i = j

\* markup with the HubSpot script host and the bare word Salesforce
C26_Witness ==
    /\ Detected
    /\ Contains(html_content.chars, <<"h", "s", "-", "s", "c", "r", "i", "p", "t", "s", ".", "c", "o", "m">>)
    /\ BareSalesforce
    /\ Names = {"HubSpot"}

(***************************************************************************)
(* One execution of the body of _scrape_with_aiohttp on its own, for every *)
(* status a response can carry.                                            *)
(***************************************************************************)
MinStatus == 100
MaxStatus == 599

Statuses == MinStatus..MaxStatus

Responses == [kind : {"response"}, status : Statuses, len : 0..MaxBodyLen]

\* line 184: f"HTTP {response.status}: {response.reason}"
ClientErrorMessage(o) == <<"HTTP ", o.status, ": ", <<"reason", o.status>>>>

\* what the execution hands to the retry wrapper: the markup, or the exception
\* with its message
AttemptOutcome(o) ==
    IF AttemptResult(o) = "ok"
    THEN [kind |-> "returned", html |-> Html(o.len, "aiohttp", normalized_url),
          status_code |-> o.status]
    ELSE [kind |-> "raised", exc |-> AttemptResult(o), message |-> ClientErrorMessage(o)]

InitFetch ==
    /\ pc = "attempt"
    /\ html_content \in Responses
    /\ url = Str_aco
    /\ normalized_url = Str_https \o Str_aco
    /\ scraping_method = "None"
    /\ metadata = InitialMetadata
    /\ variations = <<>>
    /\ target = 0
    /\ attempt_number = 1
    /\ attempts = <<>>
    /\ browser = "none"
    /\ pw_exc = "none"
    /\ pw_html = None
    /\ launches = 0
    /\ result = [kind |-> "none"]
    /\ trace = <<>>
    /\ nav_timeouts = <<>>
    /\ config = [timeout |-> 30, max_retries |-> 3, retry_delay |-> 2]
    /\ other = NoCall

\* lines 182-197 for the response held in html_content
ApplyAttempt ==
    /\ pc = "attempt"
    /\ result' = AttemptOutcome(html_content)
    /\ attempts' = Append(attempts, [result |-> AttemptResult(html_content), wait |-> 0])
    /\ pc' = "attempted"
    /\ UNCHANGED <<config, other, nav_timeouts, url, normalized_url, html_content,
                   scraping_method, metadata, variations, target, attempt_number,
                   browser, pw_exc, pw_html, launches, trace>>

NextFetch == ApplyAttempt

SpecFetch == InitFetch /\ [][NextFetch]_vars

Attempted == pc = "attempted"

\* C27 as stated: the attempt succeeds exactly when the status is in 200..299,
\* and every other status is an error whose message carries the status.
C27_SuccessIffStatus2xx ==
    Attempted =>
        /\ result.kind = "returned" <=> html_content.status \in 200..299
        /\ html_content.status \notin 200..299 =>
              result.kind = "raised" /\ result.message[2] = html_content.status

\* C27: the attempt succeeds exactly when the status is 200; every other
\* status, the other 2xx statuses included, is a ClientError whose message
\* carries the status.
C27_SuccessIffStatus200 ==
    Attempted =>
        /\ result.kind = "returned" <=> html_content.status = 200
        /\ html_content.status # 200 =>
              /\ result.kind = "raised"
              /\ result.exc = "ClientError"
              /\ result.message[2] = html_content.status

\* a response with status 204 was answered with the error "HTTP 204: ..."
C27_Witness ==
    /\ Attempted
    /\ html_content.status = 204
    /\ result.kind = "raised"
    /\ result.message[2] = 204

(***************************************************************************)
(* Progress.  Every await of scrape_website is an I/O operation with a     *)
(* timeout (ClientTimeout(total=self.timeout) at line 170, the timeout     *)
(* arguments of page.goto at lines 227 and 231) or a sleep of the retry    *)
(* wrapper, and the event loop resumes the coroutine when it completes: a  *)
(* step that is possible is eventually taken.                              *)
(***************************************************************************)
\* weak fairness of the step that computes the variations (lines 107-109),
\* which is possible exactly when the call is at that point
VariationsFair == []<>(pc # "variations") \/ []<><<EnterVariations>>_vars

SpecFair ==
    Init /\ [][Next]_vars /\ WF_vars(pc # "variations" /\ Next) /\ VariationsFair

IsHttp(e) == e.ev = "aiohttp"
IsBrowser(e) == e.ev = "playwright"

\* the lightweight fetches started so far, the primary one first
HttpFetches == SelectSeq(trace, IsHttp)

\* the requests made so far: those of the fetches that ended and those of the
\* fetch in flight
RequestsOf(fetches) ==
    SumSeq([i \in DOMAIN fetches |->
               IF fetches[i].outcome = "pending" THEN attempt_number ELSE fetches[i].n])

AttemptsBounded ==
    /\ Len(HttpFetches) <= 3
    /\ \A i \in DOMAIN HttpFetches :
          /\ RequestsOf(<<HttpFetches[i]>>) <= 3
          /\ i = 1 => HttpFetches[i].url = NormalizeUrl(url)
          /\ i > 1 => HttpFetches[i].url = variations[i - 1]
    /\ RequestsOf(HttpFetches) <= 9
    /\ launches <= 1
    /\ Len(SelectSeq(trace, IsBrowser)) <= 1
    /\ Len(nav_timeouts) <= 2

\* C28: a call makes at most 3 lightweight requests for the primary url, at
\* most 1 browser launch with at most 2 navigations and at most 3 lightweight
\* requests for each of at most 2 variations, 9 requests in all, and after
\* them it returns.
C28_BoundedAttemptsThenReturns == []AttemptsBounded /\ <>CallReturned

\* a call that returned after 9 requests, one launch and 2 navigations
C28_Witness ==
    /\ CallReturned
    /\ RequestsOf(HttpFetches) = 9
    /\ launches = 1
    /\ Len(nav_timeouts) = 2

\* C29: the empty document of a failed call carries the normalized input url;
\* a variation replaces it only in calls that end in success.
C29_FailureKeepsInputUrl ==
    TerminalFailure => result.doc.url = NormalizeUrl(url)


Errors == metadata.errors_encountered

IsPrefixOf(p, q) == Len(p) <= Len(q) /\ SubSeq(q, 1, Len(p)) = p

\* the positions of the entries of the returned errors list with a prefix
Entries(prefix) ==
    {i \in DOMAIN result.meta.errors_encountered :
        result.meta.errors_encountered[i].prefix = prefix}

ReturnedErrorsOrdered ==
    CallReturned =>
        /\ Entries("final_error") # {} <=> result.meta.scraping_success = FALSE
        /\ Entries("final_error") \subseteq {Len(result.meta.errors_encountered)}
        /\ \A i \in Entries("aiohttp"), j \in Entries("playwright") : i < j
        /\ BrowserAttempted => Entries("aiohttp") # {}

\* C30: during a call the errors list is only appended to; in the returned
\* record a "final_error:" entry is present exactly when success is false and
\* is then the last entry, every "aiohttp:" entry precedes every "playwright:"
\* entry, and whenever the browser fetch was attempted there is an "aiohttp:"
\* entry for the failed primary lightweight fetch.
C30_ErrorsAppendOnlyAndOrdered ==
    [][IsPrefixOf(Errors, Errors')]_vars /\ []ReturnedErrorsOrdered

=============================================================================
